---- MODULE Spec2Model ----
(***************************************************************************)
(* Model of the whatsapp-filter gateway: the message handlers              *)
(* (src/handlers/messages.js), the webhook dispatcher                      *)
(* (src/services/webhook.js), the statistics store (src/services/stats.js),*)
(* the message store and the identity helpers (utils/validators).          *)
(*                                                                         *)
(* Strings are sequences of tokens: one token per character of a phone or  *)
(* group id, and one token for each fixed suffix ("@g.us", "@lid",         *)
(* "@s.whatsapp.net", "status@broadcast").  A timestamp is abstracted to   *)
(* the token "ts".  Every `await` of the JavaScript code ends a step of    *)
(* the handler that executes it; the code between two awaits is one step.  *)
(***************************************************************************)
EXTENDS Integers, Sequences, FiniteSets, TLC

\* ------------------------------------------------------------------ bounds
NumHandlers == 2          \* handler invocations that may be in flight at once
MaxEvents == 2            \* events routed in one run of Spec
MaxFwdEvents == 2         \* events routed in one run of SpecFwd
MaxSeqEvents == 2         \* events routed in one run of SpecSeq
MaxAlertEvents == 4       \* events routed in one run of SpecAlert
MaxMentionEvents == 2     \* events routed in one run of SpecMention
MaxAuthEvents == 2        \* events routed in one run of SpecAuth
MaxStoreOps == 5          \* storeMessage calls in one run of SpecStore
MaxPersistEvents == 2     \* events routed in one run of SpecPersist
MaxConnEvents == 3        \* connection events routed in one run of SpecConn
MaxContactOps == 3        \* contact operations in one run of SpecContacts
MaxAdapterCloses == 7     \* closes of the adapter's socket in one run of SpecAdapter
MaxOutEvents == 2         \* events routed in one run of SpecOut
MaxAdminOps == 1          \* admin changes of the configuration in one run
RECENT_EVENTS_LIMIT == 2  \* env RECENT_EVENTS_LIMIT (default 100)
MAX_MESSAGES_PER_PHONE == 2   \* env MAX_MESSAGES_PER_PHONE (default 100)
MAX_TOTAL_MESSAGES == 3       \* env MAX_TOTAL_MESSAGES (default 5000)

\* ------------------------------------------------------- program constants
MAX_RETRIES == 3

NULL == "<null>"   \* null / undefined of a scalar
EMPTY == <<>>      \* '' (and null) of a string
NOURL == ""        \* an unset URL

Handlers == 1..NumHandlers

\* ------------------------------------------------------------ string model
Digits == {"0", "1", "2", "3", "4", "5", "6", "7", "8", "9"}

Includes(s, tok) == \E i \in 1..Len(s) : s[i] = tok

FirstIndex(s, tok) == CHOOSE i \in 1..Len(s) : s[i] = tok /\ \A j \in 1..(i-1) : s[j] # tok

\* String.prototype.replace(tok, ''): removes the first occurrence only
ReplaceFirst(s, tok) ==
  IF Includes(s, tok)
  THEN LET i == FirstIndex(s, tok)
       IN SubSeq(s, 1, i-1) \o SubSeq(s, i+1, Len(s))
  ELSE s

IsDigit(c) == c \in Digits

\* /^\d{10,15}$/
MatchesPhoneDigits(s) == Len(s) >= 10 /\ Len(s) <= 15 /\ \A i \in 1..Len(s) : s[i] \in Digits

\* normalizePhone with replace(/\D/, ''): only the first non-digit is removed
normalizePhone_firstOnly(phone) ==
  IF \E i \in 1..Len(phone) : phone[i] \notin Digits
  THEN LET i == CHOOSE i \in 1..Len(phone) :
                  phone[i] \notin Digits /\ \A j \in 1..(i-1) : phone[j] \in Digits
       IN SubSeq(phone, 1, i-1) \o SubSeq(phone, i+1, Len(phone))
  ELSE phone

normalizePhone(phone) ==
  IF phone = EMPTY THEN EMPTY ELSE SelectSeq(phone, IsDigit)

\* normalizeGroupId that keeps the suffix
normalizeGroupId_identity(groupId) == groupId

normalizeGroupId(groupId) ==
  IF groupId = EMPTY THEN EMPTY ELSE ReplaceFirst(groupId, "@g.us")

\* /^\d{lo,hi}$/
AllDigits(s, lo, hi) == Len(s) >= lo /\ Len(s) <= hi /\ \A i \in 1..Len(s) : s[i] \in Digits

\* PHONE_REGEX /^\+?[\d\s\-()]{10,20}$/, then 10-15 digits once normalized
isValidPhone(phone) ==
  /\ phone # EMPTY
  /\ LET rest == IF phone[1] = "+" THEN Tail(phone) ELSE phone
     IN /\ Len(rest) >= 10 /\ Len(rest) <= 20
        /\ \A i \in 1..Len(rest) : rest[i] \in Digits \cup {" ", "-", "(", ")"}
  /\ Len(normalizePhone(phone)) >= 10
  /\ Len(normalizePhone(phone)) <= 15

\* GROUP_ID_REGEX /^\d{10,25}(@g\.us)?$/ on the id with its first '@g.us' removed
isValidGroupId(groupId) ==
  /\ groupId # EMPTY
  /\ LET cleanId == ReplaceFirst(groupId, "@g.us")
     IN \/ AllDigits(cleanId, 10, 25)
        \/ /\ cleanId # EMPTY
           /\ cleanId[Len(cleanId)] = "@g.us"
           /\ AllDigits(SubSeq(cleanId, 1, Len(cleanId) - 1), 10, 25)

\* the default types and the custom types of the loaded configuration
ValidContactTypes == {"PERSONAL", "BUSINESS", "VIP", "TEMP"} \cup {"TEAM"}
ValidGroupTypes == {"GENERAL", "BUSINESS", "VIP", "TEMP"}

\* 2 to 50 characters; names are single tokens here, "" is the missing name
isValidName(name) == name # ""

parseRemoteJid(remoteJid) ==
  IF remoteJid = EMPTY
  THEN [sourceId |-> EMPTY, sourceType |-> "unknown", isStatusBroadcast |-> FALSE, isLid |-> FALSE]
  ELSE IF Includes(remoteJid, "status@broadcast")
  THEN [sourceId |-> EMPTY, sourceType |-> "status", isStatusBroadcast |-> TRUE, isLid |-> FALSE]
  ELSE IF Includes(remoteJid, "@g.us")
  THEN [sourceId |-> ReplaceFirst(remoteJid, "@g.us"), sourceType |-> "group",
        isStatusBroadcast |-> FALSE, isLid |-> FALSE]
  ELSE IF Includes(remoteJid, "@lid")
  THEN [sourceId |-> ReplaceFirst(remoteJid, "@lid"), sourceType |-> "contact",
        isStatusBroadcast |-> FALSE, isLid |-> TRUE]
  ELSE [sourceId |-> ReplaceFirst(remoteJid, "@s.whatsapp.net"), sourceType |-> "contact",
        isStatusBroadcast |-> FALSE, isLid |-> FALSE]

\* --------------------------------------------------------------- test data
PhonePrefix == <<"9", "7", "2", "5", "0", "0", "0", "0", "0", "0", "0">>
Phone(d) == PhonePrefix \o <<d>>
GroupPrefix == <<"1", "2", "0", "3", "6", "3", "0", "0", "0", "0", "0">>
GroupId(d) == GroupPrefix \o <<d>>

ContactJid(phone) == phone \o <<"@s.whatsapp.net">>
GroupJid(gid) == gid \o <<"@g.us">>
LidJid(lid) == lid \o <<"@lid">>

SelfPhone == Phone("9")

\* the same phone written 972-5...
PhoneDashed(d) == <<"9", "7", "2", "-">> \o SubSeq(Phone(d), 4, Len(Phone(d)))

\* the same phone written (972) 5...
PhoneParens(d) == <<"(", "9", "7", "2", ")", " ">> \o SubSeq(Phone(d), 4, Len(Phone(d)))

\* linked identifiers: one of 12 digits (it has the length of a phone) and one
\* of 16 digits
LidPhoneLike == <<"2", "2", "2", "2", "2", "2", "2", "2", "2", "2", "2", "2">>
LidLong == <<"3", "3", "3", "3", "3", "3", "3", "3", "3", "3", "3", "3", "3", "3", "3", "3">>

URL_DEFAULT == "https://ex/d"
URL_VIP == "https://ex/vip"
URL_SECONDARY == "https://ex/sec"
URL_MENTION == "https://ex/mention"
URL_ENV == "https://ex/env"

\* the contacts and groups of contacts.json in the runs explored
InitAllowedNumbers ==
  << [phone |-> <<"+">> \o Phone("3"), name |-> "Vip", type |-> "VIP"],
     [phone |-> Phone("4"), name |-> "Team", type |-> "TEAM"] >>

InitAllowedGroups ==
  << [groupId |-> GroupId("1"), name |-> "Family", type |-> "GENERAL"] >>

\* message payloads (data) the upstream delivers
Messages ==
  { [id |-> "m1", remoteJid |-> ContactJid(Phone("3")), senderPn |-> EMPTY,
     body |-> <<"hi">>, mentionedJid |-> <<>>, stanzaId |-> NULL],
    [id |-> "m2", remoteJid |-> ContactJid(Phone("4")), senderPn |-> EMPTY,
     body |-> <<"hi">>, mentionedJid |-> <<>>, stanzaId |-> NULL],
    [id |-> "m3", remoteJid |-> ContactJid(Phone("1")), senderPn |-> EMPTY,
     body |-> <<"hi">>, mentionedJid |-> <<>>, stanzaId |-> NULL],
    [id |-> "m4", remoteJid |-> GroupJid(GroupId("1")), senderPn |-> EMPTY,
     body |-> <<"hello", "David">>, mentionedJid |-> <<>>, stanzaId |-> NULL],
    [id |-> "m5", remoteJid |-> GroupJid(GroupId("2")), senderPn |-> EMPTY,
     body |-> <<"hello", "David">>, mentionedJid |-> <<>>, stanzaId |-> NULL],
    [id |-> "m6", remoteJid |-> <<"status@broadcast">>, senderPn |-> EMPTY,
     body |-> <<"hi">>, mentionedJid |-> <<>>, stanzaId |-> NULL],
    [id |-> "m7", remoteJid |-> ContactJid(SelfPhone), senderPn |-> EMPTY,
     body |-> <<"note">>, mentionedJid |-> <<>>, stanzaId |-> NULL],
    [id |-> "m8", remoteJid |-> GroupJid(GroupId("1")), senderPn |-> EMPTY,
     body |-> <<"ok">>, mentionedJid |-> <<>>, stanzaId |-> "m0"],
    [id |-> "m9", remoteJid |-> GroupJid(GroupId("1")), senderPn |-> EMPTY,
     body |-> <<"look">>, mentionedJid |-> <<ContactJid(SelfPhone)>>, stanzaId |-> NULL],
    [id |-> "m10", remoteJid |-> GroupJid(GroupId("1")), senderPn |-> EMPTY,
     body |-> <<"hi">>, mentionedJid |-> <<>>, stanzaId |-> NULL],
    [id |-> "m11", remoteJid |-> ContactJid(Phone("3")), senderPn |-> EMPTY,
     body |-> <<"hello", "David">>, mentionedJid |-> <<>>, stanzaId |-> NULL],
    [id |-> "a1", remoteJid |-> LidJid(LidPhoneLike), senderPn |-> EMPTY,
     body |-> <<"hi">>, mentionedJid |-> <<>>, stanzaId |-> NULL],
    [id |-> "a2", remoteJid |-> LidJid(LidPhoneLike), senderPn |-> Phone("3"),
     body |-> <<"hi">>, mentionedJid |-> <<>>, stanzaId |-> NULL],
    [id |-> "a3", remoteJid |-> LidJid(LidLong), senderPn |-> ContactJid(Phone("3")),
     body |-> <<"hi">>, mentionedJid |-> <<>>, stanzaId |-> NULL],
    [id |-> "a4", remoteJid |-> LidJid(LidLong), senderPn |-> EMPTY,
     body |-> <<"hi">>, mentionedJid |-> <<>>, stanzaId |-> NULL],
    [id |-> "a5", remoteJid |-> LidJid(LidLong), senderPn |-> <<"1", "2", "3">>,
     body |-> <<"hi">>, mentionedJid |-> <<>>, stanzaId |-> NULL],
    [id |-> "a6", remoteJid |-> ContactJid(<<"+">> \o PhoneDashed("4")), senderPn |-> EMPTY,
     body |-> <<"hi">>, mentionedJid |-> <<>>, stanzaId |-> NULL] }

\* outcomes of one HTTP POST: a 2xx answer, a 4xx answer, a 5xx answer, no answer
Outcomes == {"200", "400", "503", "ECONNREFUSED"}
IsHttpStatus(o) == o \in {"200", "400", "503"}
IsSuccess(o) == o = "200"
\* the answers that carry an HTTP status (error.response.status is defined)
HttpOutcomes == { o \in Outcomes : IsHttpStatus(o) }

\* typeWebhooks maps the explored runs start from or are set to
TypeWebhookMaps ==
  { [t \in {} |-> NOURL],
    [t \in {"VIP"} |-> URL_VIP] }

\* ------------------------------------------------------------------- state
VARIABLES
  env,                  \* process.env
  config,               \* the shared config object: allowedNumbers, allowedGroups
  connectedPhone,       \* messages.js: the self-phone, EMPTY when unknown
  defaultWebhookUrl,    \* webhook.js
  secondaryWebhookUrl,  \* webhook.js
  typeWebhooks,         \* webhook.js: entity type -> URL
  lastSuccess,          \* webhook.js: health of the dispatcher
  lastError,
  consecutiveFailures,
  typeStats,            \* webhook.js: entity type -> [successes, failures]
  secondaryStats,       \* webhook.js
  stats,                \* stats.js: stats.events and stats.legacy
  recentEvents,         \* stats.js: stats.recentEvents, newest first
  messageStore,         \* messageStore: phone -> messages, newest first
  isDirty,              \* messageStore
  storeClock,           \* the clock storeMessage stamps messages with
  h,                    \* the handler invocations in flight, one per slot
  secPending,           \* secondary POSTs issued and not yet answered
  alertLog,             \* the alerts passed to alertService.send
  lastReturn,           \* what routeEvent returned for the handler that ended last
  reached3,             \* times consecutiveFailures went from another value to 3
  nEvents,              \* events routed so far
  nAdmin,               \* admin changes so far
  nLogged,              \* logEvent calls so far
  adminResponse,        \* the answer to the last admin request: [op, status]
  envWebhookUrl,        \* process.env.WEBHOOK_URL, NOURL when unset
  disk,                 \* config/contacts.json, stats.json, messages.json
  proc,                 \* the process: running or not, and where its signal handlers
                        \* and save timers stand
  connectionState,      \* connection service: status and qrCode.available
  retryCount,           \* adapter: consecutive reconnect attempts
  reconnectDelays,      \* adapter: the delays (ms) of the reconnects scheduled since
                        \* the connection was last open
  ingress,              \* slot -> "endpoint" while a request of POST /filter is in the
                        \* slot, "none" otherwise
  autoSaves,            \* saveConfig calls the ingress endpoint has made
  saves,                \* saveConfig calls in flight: caller -> where the call stands
  alertSink,            \* alert service: its channels, the sends in flight, stats.alerts
  mediaStore            \* media store: its index, the files on disk, its clock

vars == <<env, config, connectedPhone, defaultWebhookUrl, secondaryWebhookUrl, typeWebhooks,
          lastSuccess, lastError, consecutiveFailures, typeStats, secondaryStats, stats,
          recentEvents, messageStore, isDirty, storeClock, h, secPending, alertLog,
          lastReturn, reached3, nEvents, nAdmin, nLogged, adminResponse,
          envWebhookUrl, disk, proc, connectionState, retryCount, reconnectDelays,
                 ingress, autoSaves, saves, alertSink, mediaStore>>

\* The mutable state the handlers and services work on, as one record; the
\* operators below take such a record and return the record after the call.
Cur ==
  [lastSuccess |-> lastSuccess, lastError |-> lastError,
   consecutiveFailures |-> consecutiveFailures, typeStats |-> typeStats,
   secondaryStats |-> secondaryStats, stats |-> stats, recentEvents |-> recentEvents,
   messageStore |-> messageStore, isDirty |-> isDirty, storeClock |-> storeClock,
   h |-> h, secPending |-> secPending, alertLog |-> alertLog, lastReturn |-> lastReturn,
   nLogged |-> nLogged]

Commit(S) ==
  /\ lastSuccess' = S.lastSuccess
  /\ lastError' = S.lastError
  /\ consecutiveFailures' = S.consecutiveFailures
  /\ typeStats' = S.typeStats
  /\ secondaryStats' = S.secondaryStats
  /\ stats' = S.stats
  /\ recentEvents' = S.recentEvents
  /\ messageStore' = S.messageStore
  /\ isDirty' = S.isDirty
  /\ storeClock' = S.storeClock
  /\ h' = S.h
  /\ secPending' = S.secPending
  /\ alertLog' = S.alertLog
  /\ lastReturn' = S.lastReturn
  /\ nLogged' = S.nLogged

\* ---------------------------------------------------------------- stats.js
EventKinds == {"MESSAGES_UPSERT", "MESSAGES_UPDATE", "SEND_MESSAGE", "MENTIONS"}

createEmptyEventStats == [total |-> 0, filtered |-> 0, forwarded |-> 0, failed |-> 0]

createDefaultStats ==
  [events |-> [e \in {"MESSAGES_UPSERT", "MESSAGES_UPDATE", "SEND_MESSAGE"} |->
                 createEmptyEventStats],
   legacy |-> [totalMessages |-> 0, filteredMessages |-> 0, allowedMessages |-> 0]]

\* initEvent + increment: an unknown event kind gets an empty entry first
increment(S, eventType, field) ==
  LET ev0 == IF eventType \in DOMAIN S.stats.events
             THEN S.stats.events
             ELSE [e \in DOMAIN S.stats.events \cup {eventType} |->
                     IF e = eventType THEN createEmptyEventStats ELSE S.stats.events[e]]
      ev1 == [ev0 EXCEPT ![eventType][field] = @ + 1]
      lg0 == S.stats.legacy
      lg1 == IF eventType = "MESSAGES_UPSERT"
             THEN [lg0 EXCEPT !.totalMessages = @ + 1,
                              !.allowedMessages = IF field = "forwarded" THEN @ + 1 ELSE @,
                              !.filteredMessages = IF field = "filtered" THEN @ + 1 ELSE @]
             ELSE lg0
  IN [S EXCEPT !.stats = [events |-> ev1, legacy |-> lg1]]

\* logEvent that trims the buffer from its newest end
logEvent_keepsOldest(S, eventData) ==
  LET event == [f \in DOMAIN eventData \cup {"id"} |->
                  IF f = "id" THEN S.nLogged + 1 ELSE eventData[f]]
      all == <<event>> \o S.recentEvents
  IN [S EXCEPT !.nLogged = @ + 1,
               !.recentEvents =
        IF Len(all) > RECENT_EVENTS_LIMIT
        THEN SubSeq(all, Len(all) - RECENT_EVENTS_LIMIT + 1, Len(all)) ELSE all]

\* the record gets its id (unique and increasing with time: here the number of
\* the call), is unshifted, and the buffer is trimmed to the limit
logEvent(S, eventData) ==
  LET event == [f \in DOMAIN eventData \cup {"id"} |->
                  IF f = "id" THEN S.nLogged + 1 ELSE eventData[f]]
      all == <<event>> \o S.recentEvents
  IN [S EXCEPT !.nLogged = @ + 1,
               !.recentEvents =
        IF Len(all) > RECENT_EVENTS_LIMIT THEN SubSeq(all, 1, RECENT_EVENTS_LIMIT) ELSE all]

StoredEvent(event, source, sourceType, entityType, action, reason, error) ==
  [event |-> event, source |-> source, sourceType |-> sourceType, entityType |-> entityType,
   action |-> action, reason |-> reason, error |-> error]

\* --------------------------------------------------------- messageStore.js
StoreEntries(ms) == UNION { { <<k, i>> : i \in 1..Len(ms[k]) } : k \in DOMAIN ms }

TotalMessages(ms) == Cardinality(StoreEntries(ms))

\* entry f comes before entry e in allMessages once sorted: the sort is by
\* timestamp and stable, so equal timestamps stay in the order of
\* Object.entries (the phones in the order their keys were created, each list
\* from index 0)
SortsBefore(ms, f, e) ==
  LET mf == ms[f[1]][f[2]]
      me == ms[e[1]][e[2]]
  IN \/ mf.timestamp < me.timestamp
     \/ /\ mf.timestamp = me.timestamp
        /\ \/ mf.keyCreated < me.keyCreated
           \/ (f[1] = e[1] /\ f[2] < e[2])

\* cleanupOldMessages sorting newest first
OldestEntries_newestFirst(ms, toRemove) ==
  { e \in StoreEntries(ms) :
      Cardinality({ f \in StoreEntries(ms) : SortsBefore(ms, e, f) }) < toRemove }

\* the entries cleanupOldMessages removes: the first toRemove of the sorted list
OldestEntries(ms, toRemove) ==
  { e \in StoreEntries(ms) :
      Cardinality({ f \in StoreEntries(ms) : SortsBefore(ms, f, e) }) < toRemove }

KeepIndices(ms, k, removeSet) == { i \in 1..Len(ms[k]) : <<k, i>> \notin removeSet }

\* Array.prototype.filter on one per-phone list
RECURSIVE FilterList(_, _, _, _)
FilterList(list, k, removeSet, i) ==
  IF i > Len(list) THEN <<>>
  ELSE (IF <<k, i>> \in removeSet THEN <<>> ELSE <<list[i]>>) \o FilterList(list, k, removeSet, i + 1)

cleanupOldMessages(ms) ==
  LET toRemove == TotalMessages(ms) - MAX_TOTAL_MESSAGES
  IN IF toRemove > 0
     THEN LET removeSet == OldestEntries(ms, toRemove)
              kept == { k \in DOMAIN ms : KeepIndices(ms, k, removeSet) # {} }
          IN [k \in kept |-> FilterList(ms[k], k, removeSet, 1)]
     ELSE ms

\* storeMessage with push in place of unshift: the new message goes to the end
\* of the list
storeMessage_append(S, phone, message) ==
  LET normalizedPhone == SelectSeq(phone, IsDigit)
      ms0 == S.messageStore
      old == IF normalizedPhone \in DOMAIN ms0 THEN ms0[normalizedPhone] ELSE <<>>
      rec == [id |-> message.id, fromMe |-> message.fromMe,
              timestamp |-> IF "timestamp" \in DOMAIN message
                            THEN message.timestamp ELSE S.storeClock,
              storedAt |-> S.storeClock,
              keyCreated |-> IF old # <<>> THEN old[1].keyCreated ELSE S.storeClock]
      lst == old \o <<rec>>
      trimmed == IF Len(lst) > MAX_MESSAGES_PER_PHONE
                 THEN SubSeq(lst, 1, MAX_MESSAGES_PER_PHONE) ELSE lst
      ms1 == [k \in DOMAIN ms0 \cup {normalizedPhone} |->
                IF k = normalizedPhone THEN trimmed ELSE ms0[k]]
      ms2 == IF TotalMessages(ms1) > MAX_TOTAL_MESSAGES THEN cleanupOldMessages(ms1) ELSE ms1
  IN [S EXCEPT !.messageStore = ms2, !.isDirty = TRUE, !.storeClock = @ + 1]

storeMessage(S, phone, message) ==
  LET normalizedPhone == SelectSeq(phone, IsDigit)
      ms0 == S.messageStore
      old == IF normalizedPhone \in DOMAIN ms0 THEN ms0[normalizedPhone] ELSE <<>>
      rec == [id |-> message.id, fromMe |-> message.fromMe,
              timestamp |-> IF "timestamp" \in DOMAIN message
                            THEN message.timestamp ELSE S.storeClock,
              storedAt |-> S.storeClock,
              keyCreated |-> IF old # <<>> THEN old[1].keyCreated ELSE S.storeClock]
      lst == <<rec>> \o old
      trimmed == IF Len(lst) > MAX_MESSAGES_PER_PHONE
                 THEN SubSeq(lst, 1, MAX_MESSAGES_PER_PHONE) ELSE lst
      ms1 == [k \in DOMAIN ms0 \cup {normalizedPhone} |->
                IF k = normalizedPhone THEN trimmed ELSE ms0[k]]
      ms2 == IF TotalMessages(ms1) > MAX_TOTAL_MESSAGES THEN cleanupOldMessages(ms1) ELSE ms1
  IN [S EXCEPT !.messageStore = ms2, !.isDirty = TRUE, !.storeClock = @ + 1]

\* deleteMessages(phone)
deleteMessages(S, phone) ==
  LET normalizedPhone == SelectSeq(phone, IsDigit)
  IN [S EXCEPT !.messageStore = [k \in DOMAIN @ \ {normalizedPhone} |-> @[k]],
               !.isDirty = TRUE]

\* ------------------------------------------------------------- messages.js
\* index of the first element of seq that satisfies Test, 0 when there is none
FindIndex(seq, Test(_)) ==
  IF \E i \in 1..Len(seq) : Test(seq[i])
  THEN CHOOSE i \in 1..Len(seq) : Test(seq[i]) /\ \A j \in 1..(i-1) : ~Test(seq[j])
  ELSE 0

\* sourceId.includes('lid')
ContainsLid(s) == \E i \in 1..Len(s) : s[i] \in {"@lid", "lid"}

\* checkAllowed without the auto-allow of the connected phone
checkAllowed_noSelf(remoteJid, senderPn) ==
  LET parsed == parseRemoteJid(remoteJid)
      sourceId == parsed.sourceId
      sourceType == parsed.sourceType
  IN IF parsed.isStatusBroadcast
     THEN [isAllowed |-> FALSE, sourceId |-> EMPTY, sourceType |-> "status",
           entityType |-> NULL, reason |-> "status_broadcast"]
     ELSE IF sourceType = "group"
     THEN LET normalizedSourceId == normalizeGroupId(sourceId)
              GroupMatches(g) == normalizeGroupId(g.groupId) = normalizedSourceId
              gi == FindIndex(config.allowedGroups, GroupMatches)
          IN [isAllowed |-> gi # 0, sourceId |-> sourceId, sourceType |-> sourceType,
              entityType |-> IF gi # 0 THEN config.allowedGroups[gi].type ELSE NULL,
              reason |-> IF gi # 0 THEN NULL ELSE "not_in_allowed_groups"]
     ELSE LET normalized0 == normalizePhone(sourceId)
              normalizedSenderPn == normalizePhone(senderPn)
              normalizedSourceId ==
                IF /\ (ContainsLid(sourceId) \/ ~MatchesPhoneDigits(normalized0))
                   /\ senderPn # EMPTY
                   /\ MatchesPhoneDigits(normalizedSenderPn)
                THEN normalizedSenderPn ELSE normalized0
              ContactMatches(c) == normalizePhone(c.phone) = normalizedSourceId
              ci == FindIndex(config.allowedNumbers, ContactMatches)
          IN [isAllowed |-> ci # 0, sourceId |-> normalizedSourceId,
              sourceType |-> sourceType,
              entityType |-> IF ci # 0 THEN config.allowedNumbers[ci].type ELSE NULL,
              reason |-> IF ci # 0 THEN NULL ELSE "not_in_allowed_contacts"]

checkAllowed(remoteJid, senderPn) ==
  LET parsed == parseRemoteJid(remoteJid)
      sourceId == parsed.sourceId
      sourceType == parsed.sourceType
  IN IF parsed.isStatusBroadcast
     THEN [isAllowed |-> FALSE, sourceId |-> EMPTY, sourceType |-> "status",
           entityType |-> NULL, reason |-> "status_broadcast"]
     ELSE IF sourceType = "group"
     THEN LET normalizedSourceId == normalizeGroupId(sourceId)
              GroupMatches(g) == normalizeGroupId(g.groupId) = normalizedSourceId
              gi == FindIndex(config.allowedGroups, GroupMatches)
          IN [isAllowed |-> gi # 0, sourceId |-> sourceId, sourceType |-> sourceType,
              entityType |-> IF gi # 0 THEN config.allowedGroups[gi].type ELSE NULL,
              reason |-> IF gi # 0 THEN NULL ELSE "not_in_allowed_groups"]
     ELSE LET normalized0 == normalizePhone(sourceId)
              normalizedSenderPn == normalizePhone(senderPn)
              normalizedSourceId ==
                IF /\ (ContainsLid(sourceId) \/ ~MatchesPhoneDigits(normalized0))
                   /\ senderPn # EMPTY
                   /\ MatchesPhoneDigits(normalizedSenderPn)
                THEN normalizedSenderPn ELSE normalized0
              isOwnPhone == connectedPhone # EMPTY /\ normalizedSourceId = connectedPhone
              ContactMatches(c) == normalizePhone(c.phone) = normalizedSourceId
              ci == FindIndex(config.allowedNumbers, ContactMatches)
              ctype == IF ci # 0 THEN config.allowedNumbers[ci].type ELSE NULL
          IN [isAllowed |-> ci # 0 \/ isOwnPhone, sourceId |-> normalizedSourceId,
              sourceType |-> sourceType,
              entityType |-> IF ctype # NULL THEN ctype
                             ELSE IF isOwnPhone THEN "SELF" ELSE NULL,
              reason |-> IF ci # 0 \/ isOwnPhone THEN NULL ELSE "not_in_allowed_contacts"]

extractMessageContent(data) ==
  [id |-> data.id, body |-> data.body, type |-> "text", fromMe |-> FALSE]

\* String.prototype.toLowerCase on the words of a body
ToLowerCase(w) == IF w = "David" THEN "david" ELSE w
LowerBody(body) == [i \in 1..Len(body) |-> ToLowerCase(body[i])]

\* env MENTION_KEYWORDS is unset: the default list, split on ','
MentionKeywords == <<"dwd", "david">>

\* jid.replace(/@.*$/, ''): everything before the first token that starts with '@'
AtTokens == {"@s.whatsapp.net", "@g.us", "@lid"}
StripAt(jid) ==
  IF \E i \in 1..Len(jid) : jid[i] \in AtTokens
  THEN SubSeq(jid, 1, (CHOOSE i \in 1..Len(jid) :
                         jid[i] \in AtTokens /\ \A j \in 1..(i-1) : jid[j] \notin AtTokens) - 1)
  ELSE jid

EndsWith(s, suffix) ==
  Len(suffix) <= Len(s) /\ SubSeq(s, Len(s) - Len(suffix) + 1, Len(s)) = suffix

\* messageStore exports no isOurMessage: calling it raises a TypeError, reported
\* here as threw = TRUE
checkMentioned(messageData, phone) ==
  LET nothing == [isMentioned |-> FALSE, method |-> NULL, keywords |-> <<>>, threw |-> FALSE]
      body == LowerBody(extractMessageContent(messageData).body)
      mentioned == messageData.mentionedJid
      isMentionedByTag == \E i \in 1..Len(mentioned) :
                             \/ StripAt(mentioned[i]) = phone
                             \/ EndsWith(StripAt(mentioned[i]), phone)
      IsMatched(kw) == Includes(body, kw)
      matchedKeywords == SelectSeq(MentionKeywords, IsMatched)
  IN IF phone = EMPTY THEN nothing
     ELSE IF isMentionedByTag
     THEN [isMentioned |-> TRUE, method |-> "@mention", keywords |-> <<>>, threw |-> FALSE]
     ELSE IF Len(matchedKeywords) > 0
     THEN [isMentioned |-> TRUE, method |-> "keyword", keywords |-> matchedKeywords,
           threw |-> FALSE]
     ELSE IF messageData.stanzaId # NULL
     THEN [nothing EXCEPT !.threw = TRUE]
     ELSE nothing

\* -------------------------------------------------------------- webhook.js
getWebhookForType(entityType) ==
  IF /\ entityType # NULL
     /\ entityType # ""
     /\ entityType \in DOMAIN typeWebhooks
     /\ typeWebhooks[entityType] # NOURL
  THEN typeWebhooks[entityType]
  ELSE defaultWebhookUrl

\* getHealth().configured
Configured == defaultWebhookUrl # NOURL \/ DOMAIN typeWebhooks # {}

IdleSlot ==
  [pc |-> "idle", event |-> NULL, sourceId |-> EMPTY, sourceType |-> NULL,
   entityType |-> NULL, fwdEntityType |-> NULL, targetUrl |-> NOURL, attempt |-> 0,
   lastAttemptError |-> NULL, answers |-> <<>>, waits |-> <<>>, nPrimary |-> 0, nSecondary |-> 0,
   nMention |-> 0, urls |-> {}, mentionMethod |-> NULL, error |-> NULL]

\* forwardToSecondary up to its await: the POST is issued, nothing waits for it
forwardToSecondary(S, p) ==
  IF secondaryWebhookUrl = NOURL THEN S
  ELSE [S EXCEPT !.secPending = @ + 1, !.h[p].nSecondary = @ + 1]

\* PostPrimary resolving the destination again at every attempt
PostPrimary_resolvesAgain(S, p, attempt) ==
  [S EXCEPT !.h[p].pc = "post", !.h[p].attempt = attempt, !.h[p].nPrimary = @ + 1,
            !.h[p].urls = @ \cup {getWebhookForType(S.h[p].fwdEntityType)}]

\* axios.post(targetUrl, ...) of attempt number `attempt`
PostPrimary(S, p, attempt) ==
  [S EXCEPT !.h[p].pc = "post", !.h[p].attempt = attempt, !.h[p].nPrimary = @ + 1,
            !.h[p].urls = @ \cup {S.h[p].targetUrl}]

\* forwardBegin with the secondary fan-out ahead of the destination check
forwardBegin_secondaryFirst(S, p, entityType) ==
  LET targetUrl == getWebhookForType(entityType)
      S1 == forwardToSecondary([S EXCEPT !.h[p].fwdEntityType = entityType,
                                         !.h[p].targetUrl = targetUrl], p)
  IN IF targetUrl = NOURL
     THEN [S1 EXCEPT !.h[p].pc = "fwd_err", !.h[p].error = "No webhook URL configured"]
     ELSE PostPrimary(S1, p, 1)

\* forward() from its call to its first await
forwardBegin(S, p, entityType) ==
  LET targetUrl == getWebhookForType(entityType)
      S1 == [S EXCEPT !.h[p].fwdEntityType = entityType, !.h[p].targetUrl = targetUrl]
  IN IF targetUrl = NOURL
     THEN [S1 EXCEPT !.h[p].pc = "fwd_err", !.h[p].error = "No webhook URL configured"]
     ELSE PostPrimary(forwardToSecondary(S1, p), p, 1)

BumpTypeStats(ts, entityType, field) ==
  IF entityType = NULL \/ entityType = "" THEN ts
  ELSE LET base == IF entityType \in DOMAIN ts THEN ts[entityType]
                   ELSE [successes |-> 0, failures |-> 0]
       IN [t \in DOMAIN ts \cup {entityType} |->
             IF t = entityType THEN [base EXCEPT ![field] = @ + 1] ELSE ts[t]]

\* Math.pow(2, attempt - 1) * 1000 ms, in seconds
RECURSIVE Pow2(_)
Pow2(n) == IF n = 0 THEN 1 ELSE 2 * Pow2(n - 1)
\* the delays of the comment above forward(): 2 s, 4 s
RetryDelay_fromTwo(attempt) == Pow2(attempt)

RetryDelay(attempt) == Pow2(attempt - 1)

\* !status || status >= 500
IsRetryable(o) == ~IsHttpStatus(o) \/ o = "503"

\* forwardSucceeded without `lastError = null`
forwardSucceeded_keepsLastError(S, p) ==
  [S EXCEPT !.lastSuccess = "ts", !.consecutiveFailures = 0,
            !.typeStats = BumpTypeStats(@, S.h[p].fwdEntityType, "successes"),
            !.h[p].pc = "fwd_ok"]

\* forward(), lines 191-207: the attempt was answered with a 2xx status
forwardSucceeded(S, p) ==
  [S EXCEPT !.lastSuccess = "ts", !.consecutiveFailures = 0, !.lastError = NULL,
            !.typeStats = BumpTypeStats(@, S.h[p].fwdEntityType, "successes"),
            !.h[p].pc = "fwd_ok"]

\* forwardExhausted counting every failed attempt of the call
forwardExhausted_countsAttempts(S, p) ==
  [S EXCEPT !.consecutiveFailures = @ + S.h[p].attempt, !.lastError = S.h[p].lastAttemptError,
            !.typeStats = BumpTypeStats(@, S.h[p].fwdEntityType, "failures"),
            !.h[p].pc = "fwd_err", !.h[p].error = S.h[p].lastAttemptError]

\* forward(), lines 223-241: the loop ended without a success
forwardExhausted(S, p) ==
  [S EXCEPT !.consecutiveFailures = @ + 1, !.lastError = S.h[p].lastAttemptError,
            !.typeStats = BumpTypeStats(@, S.h[p].fwdEntityType, "failures"),
            !.h[p].pc = "fwd_err", !.h[p].error = S.h[p].lastAttemptError]

\* forward() from the answer to one attempt to its next await or its end
forwardOnResponse(S0, p, o) ==
  LET S == [S0 EXCEPT !.h[p].answers = Append(@, o)]
      attempt == S.h[p].attempt
  IN IF IsSuccess(o)
     THEN forwardSucceeded(S, p)
     ELSE LET S1 == [S EXCEPT !.h[p].lastAttemptError = o]
          IN IF attempt < MAX_RETRIES /\ IsRetryable(o)
             THEN [S1 EXCEPT !.h[p].pc = "backoff",
                             !.h[p].waits = Append(@, RetryDelay(attempt))]
             ELSE IF attempt < MAX_RETRIES
             THEN PostPrimary(S1, p, attempt + 1)
             ELSE forwardExhausted(S1, p)

\* ------------------------------------------------- messages.js: the handlers
\* routeEvent without its try/catch: what the handler throws reaches the caller
routeEvent_rethrows(event, action, reason) ==
  [rejected |-> action = "threw", success |-> TRUE, event |-> event, action |-> action,
   reason |-> reason]

\* routeEvent: the awaited handler returned {action, ...} or threw (action =
\* "threw", reason = error.message); the promise routeEvent returns resolves with
\* {success, event, ...result} or {success: false, event, error}
routeEvent(event, action, reason) ==
  [rejected |-> FALSE, success |-> action # "threw", event |-> event, action |-> action,
   reason |-> reason]

\* POST /filter and POST /filter/:event after `await routeEvent(...)`: the
\* auto-save cannot throw (saveConfig catches), so 200 unless routeEvent rejected
filterEndpoint(result) == IF result.rejected THEN 500 ELSE 200

\* what lastReturn holds before any request was answered
NoReturn == [success |-> TRUE, event |-> NULL, action |-> NULL, reason |-> NULL, status |-> 0]

\* the handler of slot p returns (or throws); routeEvent wraps what it returned
\* and the ingress endpoint answers
Return(S, p, action, reason) ==
  LET hp == S.h[p]
      result == routeEvent(hp.event, action, reason)
  IN [S EXCEPT !.lastReturn =
                 [success |-> result.success, event |-> result.event,
                  action |-> result.action, reason |-> result.reason,
                  status |-> filterEndpoint(result)],
               !.h[p] = IdleSlot]

\* alertService.send(alert), as far as the message handlers are concerned
alertSend(S, level, event) ==
  [S EXCEPT !.alertLog = Append(@, [level |-> level, event |-> event])]

\* handleUpsert, lines 542-623 up to the await of forward()
upsertForwardPart(S, p) ==
  LET hp == S.h[p]
  IN IF ~Configured
     THEN Return(logEvent(increment(S, "MESSAGES_UPSERT", "forwarded"),
                          StoredEvent("MESSAGES_UPSERT", hp.sourceId, hp.sourceType, NULL,
                                      "forwarded", NULL, NULL)),
                 p, "forwarded", NULL)
     ELSE forwardBegin(S, p, hp.entityType)

\* forwardMention up to its await of fetch()
forwardMentionBegin(S, p) ==
  IF env.MENTION_WEBHOOK_URL = NOURL
  THEN [S EXCEPT !.h[p].pc = "mention"]
  ELSE [S EXCEPT !.h[p].pc = "mention", !.h[p].nMention = @ + 1]

\* upsertFiltered without its return: the event is logged as filtered and the
\* handler goes on to the forwarding part
upsertFiltered_fallsThrough(S, p, ca) ==
  upsertForwardPart(logEvent(increment(S, "MESSAGES_UPSERT", "filtered"),
                             StoredEvent("MESSAGES_UPSERT", ca.sourceId, ca.sourceType, NULL,
                                         "filtered", ca.reason, NULL)),
                    p)

\* handleUpsert, lines 451-473: the source is not allowed
upsertFiltered(S, p, ca) ==
  Return(logEvent(increment(S, "MESSAGES_UPSERT", "filtered"),
                  StoredEvent("MESSAGES_UPSERT", ca.sourceId, ca.sourceType, NULL,
                              "filtered", ca.reason, NULL)),
         p, "filtered", ca.reason)

\* handleUpsert from its call to its first await or its return
handleUpsertBegin(S0, p, data) ==
  LET S1 == increment(S0, "MESSAGES_UPSERT", "total")
      ca == checkAllowed(data.remoteJid, data.senderPn)
      S2 == [S1 EXCEPT !.h[p] = [IdleSlot EXCEPT !.pc = "run", !.event = "MESSAGES_UPSERT",
                                                 !.sourceId = ca.sourceId,
                                                 !.sourceType = ca.sourceType,
                                                 !.entityType = ca.entityType]]
  IN IF ca.sourceType = "status"
     THEN Return(increment(S2, "MESSAGES_UPSERT", "filtered"), p, "filtered", "status_broadcast")
     ELSE IF ~ca.isAllowed
     THEN upsertFiltered(S2, p, ca)
     ELSE LET S3 == storeMessage(S2, ca.sourceId, extractMessageContent(data))
          IN IF env.ENABLE_MENTION_DETECTION /\ ca.sourceType = "group" /\ connectedPhone # EMPTY
             THEN LET mention == checkMentioned(data, connectedPhone)
                  IN IF mention.threw
                     THEN Return(S3, p, "threw", "messageStore.isOurMessage is not a function")
                     ELSE IF mention.isMentioned
                     THEN forwardMentionBegin([S3 EXCEPT !.h[p].mentionMethod = mention.method], p)
                     ELSE upsertForwardPart(S3, p)
             ELSE upsertForwardPart(S3, p)

\* handleUpsertAfterMention returning under the mentions-only policy only when
\* the mention forward succeeded
handleUpsertAfterMention_returnsOnSuccess(S0, p, o) ==
  LET hp == S0.h[p]
      posted == hp.nMention > 0
      mentionForwarded == posted /\ IsSuccess(o)
      S1 == IF posted
            THEN increment(S0, "MENTIONS", IF mentionForwarded THEN "forwarded" ELSE "failed")
            ELSE S0
      S2 == logEvent(S1, StoredEvent("MENTION_DETECTED", hp.sourceId, hp.sourceType, NULL,
                                     IF mentionForwarded THEN "forwarded_to_openclaw"
                                     ELSE "detection_only", NULL, NULL))
  IN IF env.MENTION_ONLY_OPENCLAW /\ mentionForwarded
     THEN Return(increment(S2, "MESSAGES_UPSERT", "forwarded"), p, "mention_forwarded", NULL)
     ELSE upsertForwardPart(S2, p)

\* handleUpsert after forwardMention answered: lines 505-540, then 542-623
handleUpsertAfterMention(S0, p, o) ==
  LET hp == S0.h[p]
      posted == hp.nMention > 0
      mentionForwarded == posted /\ IsSuccess(o)
      S1 == IF posted
            THEN increment(S0, "MENTIONS", IF mentionForwarded THEN "forwarded" ELSE "failed")
            ELSE S0
      S2 == logEvent(S1, StoredEvent("MENTION_DETECTED", hp.sourceId, hp.sourceType, NULL,
                                     IF mentionForwarded THEN "forwarded_to_openclaw"
                                     ELSE "detection_only", NULL, NULL))
  IN IF env.MENTION_ONLY_OPENCLAW
     THEN Return(increment(S2, "MESSAGES_UPSERT", "forwarded"), p, "mention_forwarded", NULL)
     ELSE upsertForwardPart(S2, p)

\* handleUpsert after forward() resolved or rejected: lines 573-623
handleUpsertAfterForward(S, p) ==
  LET hp == S.h[p]
  IN IF hp.pc = "fwd_ok"
     THEN Return(logEvent(increment(S, "MESSAGES_UPSERT", "forwarded"),
                          StoredEvent("MESSAGES_UPSERT", hp.sourceId, hp.sourceType,
                                      hp.entityType, "forwarded", NULL, NULL)),
                 p, "forwarded", NULL)
     ELSE LET S1 == logEvent(increment(S, "MESSAGES_UPSERT", "failed"),
                             StoredEvent("MESSAGES_UPSERT", hp.sourceId, hp.sourceType,
                                         hp.entityType, "failed", NULL, hp.error))
              S2 == IF S1.consecutiveFailures = 3
                    THEN alertSend(S1, "warning", "webhook_failed") ELSE S1
          IN Return(S2, p, "failed", hp.error)

\* handleSend from its call to its first await or its return
handleSendBegin(S0, p, data) ==
  LET S1 == increment(S0, "SEND_MESSAGE", "total")
      ca == checkAllowed(data.remoteJid, data.senderPn)
      S2 == [S1 EXCEPT !.h[p] = [IdleSlot EXCEPT !.pc = "run", !.event = "SEND_MESSAGE",
                                                 !.sourceId = ca.sourceId,
                                                 !.sourceType = ca.sourceType]]
      messageContent == [extractMessageContent(data) EXCEPT !.fromMe = TRUE]
  IN IF ~ca.isAllowed
     THEN Return(increment(S2, "SEND_MESSAGE", "filtered"), p, "filtered", "recipient_not_allowed")
     ELSE LET S3 == IF ca.sourceId # EMPTY
                    THEN storeMessage(S2, ca.sourceId, messageContent) ELSE S2
          IN IF Configured
             THEN forwardBegin(S3, p, "")
             ELSE Return(logEvent(increment(S3, "SEND_MESSAGE", "forwarded"),
                                  StoredEvent("SEND_MESSAGE", ca.sourceId, ca.sourceType, NULL,
                                              "forwarded", NULL, NULL)),
                         p, "forwarded", NULL)

\* handleSend after forward() resolved or rejected: lines 729-757
handleSendAfterForward(S, p) ==
  LET hp == S.h[p]
  IN IF hp.pc = "fwd_ok"
     THEN Return(logEvent(increment(S, "SEND_MESSAGE", "forwarded"),
                          StoredEvent("SEND_MESSAGE", hp.sourceId, hp.sourceType, NULL,
                                      "forwarded", NULL, NULL)),
                 p, "forwarded", NULL)
     ELSE Return(logEvent(increment(S, "SEND_MESSAGE", "failed"),
                          StoredEvent("SEND_MESSAGE", hp.sourceId, hp.sourceType, NULL,
                                      "failed", NULL, hp.error)),
                 p, "failed", hp.error)

\* handleUpdate that forwards whatever ENABLE_MESSAGE_UPDATES holds
handleUpdateBegin_always(S0, p, data) ==
  LET S1 == increment(S0, "MESSAGES_UPDATE", "total")
      S2 == [S1 EXCEPT !.h[p] = [IdleSlot EXCEPT !.pc = "run", !.event = "MESSAGES_UPDATE"]]
  IN forwardBegin(S2, p, "")

\* handleUpdate from its call to its first await or its return
handleUpdateBegin(S0, p, data) ==
  LET S1 == increment(S0, "MESSAGES_UPDATE", "total")
      S2 == [S1 EXCEPT !.h[p] = [IdleSlot EXCEPT !.pc = "run", !.event = "MESSAGES_UPDATE"]]
  IN IF env.ENABLE_MESSAGE_UPDATES
     THEN forwardBegin(S2, p, "")
     ELSE Return(logEvent(S2, StoredEvent("MESSAGES_UPDATE", EMPTY, NULL, NULL,
                                          "logged", NULL, NULL)),
                 p, "logged", NULL)

\* handleUpdate after forward() resolved or rejected: lines 635-645
handleUpdateAfterForward(S, p) ==
  LET hp == S.h[p]
  IN IF hp.pc = "fwd_ok"
     THEN Return(logEvent(increment(S, "MESSAGES_UPDATE", "forwarded"),
                          StoredEvent("MESSAGES_UPDATE", EMPTY, NULL, NULL,
                                      "forwarded", NULL, NULL)),
                 p, "forwarded", NULL)
     ELSE Return(increment(S, "MESSAGES_UPDATE", "failed"), p, "failed", hp.error)

\* handleDelete, handleSet and the generic handler: count, log, return; the
\* generic handler skips PRESENCE_UPDATE (env ENABLE_PRESENCE_LOGGING is unset)
handleOther(S0, p, event) ==
  LET S1 == increment(S0, event, "total")
      S2 == [S1 EXCEPT !.h[p] = [IdleSlot EXCEPT !.pc = "run", !.event = event]]
  IN IF event = "PRESENCE_UPDATE"
     THEN Return(S2, p, "skipped", NULL)
     ELSE Return(logEvent(S2, StoredEvent(event, EMPTY, NULL, NULL, "logged", NULL, NULL)),
                 p, "logged", NULL)

\* forwardToSecondaryDone counting a secondary failure in the primary's counter
forwardToSecondaryDone_sharedCounter(S, o) ==
  IF IsSuccess(o)
  THEN [S EXCEPT !.secPending = @ - 1,
                 !.secondaryStats = [lastSuccess |-> "ts", lastError |-> NULL,
                                     consecutiveFailures |-> 0]]
  ELSE [S EXCEPT !.secPending = @ - 1, !.consecutiveFailures = @ + 1,
                 !.secondaryStats = [@ EXCEPT !.consecutiveFailures = @ + 1, !.lastError = o]]

\* forwardToSecondary after its POST was answered
forwardToSecondaryDone(S, o) ==
  IF IsSuccess(o)
  THEN [S EXCEPT !.secPending = @ - 1,
                 !.secondaryStats = [lastSuccess |-> "ts", lastError |-> NULL,
                                     consecutiveFailures |-> 0]]
  ELSE [S EXCEPT !.secPending = @ - 1,
                 !.secondaryStats = [@ EXCEPT !.consecutiveFailures = @ + 1, !.lastError = o]]

\* ---------------------------------------------------------------- actions
\* new invocations take the lowest free slot (the slots are interchangeable)
FreeSlot(p) == h[p].pc = "idle" /\ \A q \in Handlers : q < p => h[q].pc # "idle"

\* what no message handler touches: the environment, the files, the process,
\* the connection service and the adapter
Unchanged_system == UNCHANGED <<envWebhookUrl, disk, proc, connectionState, retryCount,
                                reconnectDelays,
                 ingress, autoSaves, saves, alertSink, mediaStore>>

Unchanged_config ==
  /\ UNCHANGED <<env, config, connectedPhone, defaultWebhookUrl,
                 secondaryWebhookUrl, typeWebhooks, nAdmin, adminResponse>>
  /\ Unchanged_system

SendMessages == { m \in Messages : m.id \in {"m2"} }
UpdateMessages == { m \in Messages : m.id \in {"m1"} }

\* routeEvent('MESSAGES_UPSERT', payload)
RouteUpsert(p, data) ==
  /\ FreeSlot(p)
  /\ Commit(handleUpsertBegin(Cur, p, data))
  /\ nEvents' = nEvents + 1
  /\ UNCHANGED reached3
  /\ Unchanged_config

\* routeEvent('SEND_MESSAGE', payload)
RouteSend(p, data) ==
  /\ FreeSlot(p)
  /\ Commit(handleSendBegin(Cur, p, data))
  /\ nEvents' = nEvents + 1
  /\ UNCHANGED reached3
  /\ Unchanged_config

\* routeEvent('MESSAGES_UPDATE', payload)
RouteUpdate(p, data) ==
  /\ FreeSlot(p)
  /\ Commit(handleUpdateBegin(Cur, p, data))
  /\ nEvents' = nEvents + 1
  /\ UNCHANGED reached3
  /\ Unchanged_config

\* routeEvent(event, payload) for the kinds handled by handleDelete, handleSet
\* and genericHandler.handle
OtherEvents == {"MESSAGES_DELETE", "PRESENCE_UPDATE", "CALL"}

RouteOther(p, event) ==
  /\ FreeSlot(p)
  /\ Commit(handleOther(Cur, p, event))
  /\ nEvents' = nEvents + 1
  /\ UNCHANGED reached3
  /\ Unchanged_config

\* the mention endpoint answers (or forwardMention returned false without a POST)
MentionResponds(p, o) ==
  /\ h[p].pc = "mention"
  /\ (h[p].nMention = 0) => (o = "503")
  /\ Commit(handleUpsertAfterMention(Cur, p, o))
  /\ UNCHANGED <<reached3, nEvents>>
  /\ Unchanged_config

\* the destination answers the attempt in flight, or the attempt times out
PrimaryResponds(p, o) ==
  /\ h[p].pc = "post"
  /\ Commit(forwardOnResponse(Cur, p, o))
  /\ reached3' = IF consecutiveFailures' = 3 /\ consecutiveFailures # 3
                 THEN reached3 + 1 ELSE reached3
  /\ UNCHANGED nEvents
  /\ Unchanged_config

\* the backoff timer fires: the next attempt is POSTed
BackoffElapses(p) ==
  /\ h[p].pc = "backoff"
  /\ Commit(PostPrimary(Cur, p, h[p].attempt + 1))
  /\ UNCHANGED <<reached3, nEvents>>
  /\ Unchanged_config

\* the handler resumes after `await webhookService.forward(...)`
ForwardReturns(p) ==
  /\ h[p].pc \in {"fwd_ok", "fwd_err"}
  /\ Commit(CASE h[p].event = "MESSAGES_UPSERT" -> handleUpsertAfterForward(Cur, p)
              [] h[p].event = "SEND_MESSAGE" -> handleSendAfterForward(Cur, p)
              [] h[p].event = "MESSAGES_UPDATE" -> handleUpdateAfterForward(Cur, p))
  /\ UNCHANGED <<reached3, nEvents>>
  /\ Unchanged_config

\* the secondary endpoint answers one of the POSTs in flight
SecondaryResponds(o) ==
  /\ secPending > 0
  /\ Commit(forwardToSecondaryDone(Cur, o))
  /\ UNCHANGED <<reached3, nEvents>>
  /\ Unchanged_config

\* configToSave that saves webhookUrl whatever the environment holds
configToSave_always ==
  LET base == [allowedNumbers |-> config.allowedNumbers,
               allowedGroups |-> config.allowedGroups,
               typeWebhooks |-> typeWebhooks]
  IN IF defaultWebhookUrl # NOURL
     THEN [f \in DOMAIN base \cup {"webhookUrl"} |->
             IF f = "webhookUrl" THEN defaultWebhookUrl ELSE base[f]]
     ELSE base

\* saveConfig: configToSave, the object that is serialized; its custom types
\* and its copy of the legacy counters are not kept in the model of the file
configToSave ==
  LET base == [allowedNumbers |-> config.allowedNumbers,
               allowedGroups |-> config.allowedGroups,
               typeWebhooks |-> typeWebhooks]
  IN IF envWebhookUrl = NOURL /\ defaultWebhookUrl # NOURL
     THEN [f \in DOMAIN base \cup {"webhookUrl"} |->
             IF f = "webhookUrl" THEN defaultWebhookUrl ELSE base[f]]
     ELSE base

\* what a save of the file serializes
Serialized(f) ==
  CASE f = "contacts.json" -> configToSave
    [] f = "stats.json" -> stats
    [] f = "messages.json" -> messageStore

\* fs.writeFile(f, data) called: the file is opened with truncation and filled
\* chunk by chunk; until the write is over the file holds a part of data
writeFile(d, f) ==
  [d EXCEPT ![f] = [state |-> "partial", data |-> Serialized(f), writers |-> d[f].writers + 1]]

\* one fs.writeFile(f, ...) is over: the file is whole once no other write of
\* it is under way
writeFileDone(d, f) ==
  [d EXCEPT ![f].writers = @ - 1,
            ![f].state = IF d[f].writers = 1 THEN "complete" ELSE "partial"]

\* saveConfig() of an admin handler that answered 200: contacts.json holds the
\* configuration the handler leaves behind (a handler that answered otherwise
\* returned before its save)
saveConfig ==
  /\ UNCHANGED <<envWebhookUrl, proc, connectionState, retryCount, reconnectDelays,
                 ingress, autoSaves, saves, alertSink, mediaStore>>
  /\ disk' = IF adminResponse'.status = 200
             THEN writeFileDone(
                    [disk EXCEPT !["contacts.json"] =
                       [state |-> "partial", data |-> configToSave',
                        writers |-> disk["contacts.json"].writers + 1]],
                    "contacts.json")
             ELSE disk

\* POST /api/webhooks/types
SetTypeWebhooks(webhooks) ==
  /\ nAdmin < MaxAdminOps
  /\ webhooks # typeWebhooks
  /\ typeWebhooks' = webhooks
  /\ nAdmin' = nAdmin + 1
  /\ Commit(Cur)
  /\ adminResponse' = [op |-> "POST /api/webhooks/types", status |-> 200]
  /\ UNCHANGED <<env, config, connectedPhone, defaultWebhookUrl, secondaryWebhookUrl,
                 reached3, nEvents>>
  /\ saveConfig

\* POST /api/webhook
SetDefaultWebhook(url) ==
  /\ nAdmin < MaxAdminOps
  /\ nAdmin' = nAdmin + 1
  /\ IF envWebhookUrl # NOURL
     THEN /\ adminResponse' = [op |-> "POST /api/webhook", status |-> 403]
          /\ UNCHANGED defaultWebhookUrl
     ELSE /\ url # defaultWebhookUrl
          /\ defaultWebhookUrl' = url
          /\ adminResponse' = [op |-> "POST /api/webhook", status |-> 200]
  /\ Commit(Cur)
  /\ UNCHANGED <<env, config, connectedPhone, typeWebhooks, secondaryWebhookUrl,
                 reached3, nEvents>>
  /\ saveConfig

\* POST /api/contacts/add with body {phone, name, type, lid}
AddContact(req) ==
  /\ nAdmin < MaxAdminOps
  /\ nAdmin' = nAdmin + 1
  /\ LET op == "POST /api/contacts/add"
         newContact == IF req.lid # EMPTY
                       THEN [phone |-> req.phone, name |-> req.name, type |-> req.type,
                             lid |-> req.lid]
                       ELSE [phone |-> req.phone, name |-> req.name, type |-> req.type]
     IN IF \/ req.phone = EMPTY \/ req.name = "" \/ req.type = ""
           \/ ~isValidPhone(req.phone)
           \/ ~isValidName(req.name)
           \/ req.type \notin ValidContactTypes
           \/ (req.lid # EMPTY /\ ~AllDigits(req.lid, 10, 25))
        THEN adminResponse' = [op |-> op, status |-> 400] /\ UNCHANGED config
        ELSE IF \E i \in 1..Len(config.allowedNumbers) : config.allowedNumbers[i].phone = req.phone
        THEN adminResponse' = [op |-> op, status |-> 409] /\ UNCHANGED config
        ELSE /\ config' = [config EXCEPT !.allowedNumbers = Append(@, newContact)]
             /\ adminResponse' = [op |-> op, status |-> 200]
  /\ Commit(Cur)
  /\ UNCHANGED <<env, connectedPhone, defaultWebhookUrl, typeWebhooks, secondaryWebhookUrl,
                 reached3, nEvents>>
  /\ saveConfig

\* POST /api/groups/add with body {groupId, name, type}
AddGroup(req) ==
  /\ nAdmin < MaxAdminOps
  /\ nAdmin' = nAdmin + 1
  /\ LET op == "POST /api/groups/add"
         groupId == normalizeGroupId(req.groupId)
         type == IF req.type = "" THEN "GENERAL" ELSE req.type
     IN IF \/ req.groupId = EMPTY \/ req.name = ""
           \/ ~isValidGroupId(groupId)
           \/ ~isValidName(req.name)
           \/ type \notin ValidGroupTypes
        THEN adminResponse' = [op |-> op, status |-> 400] /\ UNCHANGED config
        ELSE IF \E i \in 1..Len(config.allowedGroups) :
                   normalizeGroupId(config.allowedGroups[i].groupId) = groupId
        THEN adminResponse' = [op |-> op, status |-> 409] /\ UNCHANGED config
        ELSE /\ config' = [config EXCEPT !.allowedGroups =
                              Append(@, [groupId |-> groupId, name |-> req.name, type |-> type])]
             /\ adminResponse' = [op |-> op, status |-> 200]
  /\ Commit(Cur)
  /\ UNCHANGED <<env, connectedPhone, defaultWebhookUrl, typeWebhooks, secondaryWebhookUrl,
                 reached3, nEvents>>
  /\ saveConfig

\* the state of the services after construction
InitServices ==
  /\ secondaryWebhookUrl = env.SECONDARY_WEBHOOK_URL
  /\ lastSuccess = NULL
  /\ lastError = NULL
  /\ consecutiveFailures = 0
  /\ typeStats = [t \in {} |-> [successes |-> 0, failures |-> 0]]
  /\ secondaryStats = [lastSuccess |-> NULL, lastError |-> NULL, consecutiveFailures |-> 0]
  /\ stats = createDefaultStats
  /\ recentEvents = <<>>
  /\ messageStore = [k \in {} |-> <<>>]
  /\ isDirty = FALSE
  /\ storeClock = 1
  /\ h = [p \in Handlers |-> IdleSlot]
  /\ secPending = 0
  /\ alertLog = <<>>
  /\ lastReturn = NoReturn
  /\ reached3 = 0
  /\ nEvents = 0
  /\ nAdmin = 0
  /\ nLogged = 0
  /\ adminResponse = [op |-> NULL, status |-> 0]

\* the state after construction, whatever the configuration
\* no default URL in the environment, no file written yet, the process
\* running with no signal received, the connection unknown, the adapter idle
NoFile == [state |-> "absent", writers |-> 0]
Files == {"contacts.json", "stats.json", "messages.json"}
ProcRunning == [status |-> "running", baileysEnabled |-> FALSE, server |-> "idle",
                statsSignal |-> "idle", timers |-> {}, socket |-> "none"]
\* the callers of saveConfig: the requests of the ingress endpoint, by slot,
\* and the admin requests in flight
AdminRequests == 1..2
Savers == ({"filter"} \X Handlers) \cup ({"admin"} \X AdminRequests)
NoSave == [pc |-> "none"]

\* stats.alerts of createDefaultStats
NoAlerts ==
  [sent |-> 0, failed |-> 0, byLevel |-> [l \in {"info", "warning", "critical"} |-> 0]]

\* the send() calls that may be awaiting their POSTs at the same time
SendIds == 1..2

\* no send of this identity is awaiting its POSTs
NoSend == [level |-> NULL, posts |-> {}]

\* the alert service with no channel in the environment and nothing sent
NoAlertSink ==
  [channels |-> {}, pending |-> [i \in SendIds |-> NoSend], posts |-> 0, alerts |-> NoAlerts,
   returned |-> <<>>]

\* media callers: the message handlers of the adapter that may be in saveMedia
\* at the same time
MediaCallers == 1..2
IdleMediaCall == [pc |-> "idle"]

\* the media store after init() found no media_index.json; returned is what
\* the saveMedia that returned last returned, nReturned how many have returned
EmptyMediaStore ==
  [index |-> <<>>, files |-> {}, indexFile |-> <<>>, clock |-> 1,
   calls |-> [c \in MediaCallers |-> IdleMediaCall],
   nReturned |-> 0, returned |-> [caller |-> 0, mediaId |-> <<>>]]

\* no request saving, no alert channel, no media
InitSideServices ==
  /\ ingress = [p \in Handlers |-> "none"]
  /\ autoSaves = 0
  /\ saves = [o \in Savers |-> NoSave]
  /\ alertSink = NoAlertSink
  /\ mediaStore = EmptyMediaStore

InitSystem ==
  /\ envWebhookUrl = NOURL
  /\ disk = [f \in Files |-> NoFile]
  /\ proc = ProcRunning
  /\ connectionState = [status |-> "unknown", qrAvailable |-> FALSE]
  /\ retryCount = 0
  /\ reconnectDelays = <<>>
  /\ InitSideServices

InitState ==
  /\ config = [allowedNumbers |-> InitAllowedNumbers, allowedGroups |-> InitAllowedGroups]
  /\ InitServices
  /\ InitSystem

Env(md, mo, mu, up, su) ==
  [ENABLE_MENTION_DETECTION |-> md, MENTION_ONLY_OPENCLAW |-> mo, MENTION_WEBHOOK_URL |-> mu,
   ENABLE_MESSAGE_UPDATES |-> up, SECONDARY_WEBHOOK_URL |-> su]

\* ------------------------------------------------------------------------
\* Spec: message-insertion handlers running concurrently (ingress requests in
\* parallel), each with its forward() call; no secondary, no mention detection.
UpsertMessages == { m \in Messages : m.id \in {"m1", "m2", "m3"} }

Init ==
  /\ env = Env(FALSE, FALSE, NOURL, FALSE, NOURL)
  /\ connectedPhone = EMPTY
  /\ defaultWebhookUrl \in {NOURL, URL_DEFAULT}
  /\ typeWebhooks \in TypeWebhookMaps
  /\ InitState

Next ==
  \/ \E p \in Handlers, data \in UpsertMessages : nEvents < MaxEvents /\ RouteUpsert(p, data)
  \/ \E p \in Handlers, o \in HttpOutcomes : PrimaryResponds(p, o)
  \/ \E p \in Handlers : BackoffElapses(p)
  \/ \E p \in Handlers : ForwardReturns(p)

Spec == Init /\ [][Next]_vars

\* ------------------------------------------------------------------------
\* SpecFwd: one forward() call at a time, with the secondary fan-out answered
\* at any time or never, and admin changes of the webhook configuration while
\* a call is in flight.
FwdMessages == { m \in Messages : m.id \in {"m1", "m2"} }

InitFwd ==
  /\ env \in { Env(FALSE, FALSE, NOURL, FALSE, su) : su \in {NOURL, URL_SECONDARY} }
  /\ connectedPhone = EMPTY
  /\ defaultWebhookUrl \in {NOURL, URL_DEFAULT}
  /\ typeWebhooks \in TypeWebhookMaps
  /\ InitState

NextFwd ==
  \/ \E data \in FwdMessages : nEvents < MaxFwdEvents /\ RouteUpsert(1, data)
  \/ \E o \in Outcomes : PrimaryResponds(1, o)
  \/ BackoffElapses(1)
  \/ ForwardReturns(1)
  \/ \E o \in {"200", "503"} : SecondaryResponds(o)
  \/ \E webhooks \in TypeWebhookMaps : SetTypeWebhooks(webhooks)
  \/ \E url \in {NOURL, URL_DEFAULT} : SetDefaultWebhook(url)

SpecFwd == InitFwd /\ [][NextFwd]_vars

\* ------------------------------------------------------------------------
\* SpecSeq: the message handlers one invocation at a time, over every event
\* kind, with and without mention detection.
SeqUpsertMessages == { m \in Messages : m.id \in {"m1", "m3", "m4", "m5", "m6"} }

InitSeq ==
  /\ env \in { Env(FALSE, FALSE, NOURL, TRUE, URL_SECONDARY),
               Env(TRUE, TRUE, URL_MENTION, FALSE, NOURL),
               Env(TRUE, FALSE, NOURL, FALSE, NOURL),
               Env(TRUE, FALSE, URL_MENTION, FALSE, URL_SECONDARY) }
  /\ connectedPhone = SelfPhone
  /\ defaultWebhookUrl \in {NOURL, URL_DEFAULT}
  /\ typeWebhooks \in TypeWebhookMaps
  /\ InitState

NextSeq ==
  \/ \E data \in SeqUpsertMessages : nEvents < MaxSeqEvents /\ RouteUpsert(1, data)
  \/ \E data \in SendMessages : nEvents < MaxSeqEvents /\ RouteSend(1, data)
  \/ \E data \in UpdateMessages : nEvents < MaxSeqEvents /\ RouteUpdate(1, data)
  \/ \E o \in {"200", "503"} : MentionResponds(1, o)
  \/ \E o \in HttpOutcomes : PrimaryResponds(1, o)
  \/ BackoffElapses(1)
  \/ ForwardReturns(1)
  \/ \E o \in {"200", "503"} : SecondaryResponds(o)

SpecSeq == InitSeq /\ [][NextSeq]_vars

\* ------------------------------------------------------------------------
\* SpecAlert: runs of failing forwards from the three handlers that forward,
\* long enough for consecutiveFailures to reach and pass the alert threshold.
InitAlert ==
  /\ env = Env(FALSE, FALSE, NOURL, TRUE, NOURL)
  /\ connectedPhone = EMPTY
  /\ defaultWebhookUrl \in {NOURL, URL_DEFAULT}
  /\ typeWebhooks \in TypeWebhookMaps
  /\ InitState

NextAlert ==
  \/ \E data \in FwdMessages : nEvents < MaxAlertEvents /\ RouteUpsert(1, data)
  \/ \E data \in SendMessages : nEvents < MaxAlertEvents /\ RouteSend(1, data)
  \/ \E data \in UpdateMessages : nEvents < MaxAlertEvents /\ RouteUpdate(1, data)
  \/ \E o \in HttpOutcomes : PrimaryResponds(1, o)
  \/ BackoffElapses(1)
  \/ ForwardReturns(1)

SpecAlert == InitAlert /\ [][NextAlert]_vars

\* ------------------------------------------------------------------------
\* SpecMention: group and contact messages with and without a mention of the
\* self-phone, under every setting of the mention hook, and events of the
\* kinds that are only counted and logged.
MentionMessages == { m \in Messages : m.id \in {"m4", "m5", "m8", "m9", "m10", "m11"} }

InitMention ==
  /\ env \in { Env(md, mo, mu, FALSE, NOURL) :
                md \in BOOLEAN, mo \in BOOLEAN, mu \in {NOURL, URL_MENTION} }
  /\ connectedPhone \in {EMPTY, SelfPhone}
  /\ defaultWebhookUrl = URL_DEFAULT
  /\ typeWebhooks = [t \in {} |-> NOURL]
  /\ InitState

NextMention ==
  \/ \E data \in MentionMessages : nEvents < MaxMentionEvents /\ RouteUpsert(1, data)
  \/ \E event \in OtherEvents : nEvents < MaxMentionEvents /\ RouteOther(1, event)
  \/ \E o \in {"200", "503"} : MentionResponds(1, o)
  \/ \E o \in HttpOutcomes : PrimaryResponds(1, o)
  \/ BackoffElapses(1)
  \/ ForwardReturns(1)

SpecMention == InitMention /\ [][NextMention]_vars

\* ------------------------------------------------------------------------
\* SpecAuth: authorization of contact, linked-identifier and group addresses
\* against contacts and groups stored in several formats, with contacts and
\* groups added through the admin API meanwhile.
AuthMessages ==
  { m \in Messages : m.id \in {"m1", "m3", "m7", "m10", "a1", "a2", "a3", "a4", "a5", "a6"} }

\* contacts.json as loaded: phones stored in two formats, with and without lid
AuthAllowedNumbers ==
  { InitAllowedNumbers,
    << [phone |-> PhoneDashed("3"), name |-> "Vip", type |-> "VIP", lid |-> LidPhoneLike],
       [phone |-> PhoneParens("4"), name |-> "Team", type |-> "TEAM", lid |-> LidLong] >> }

\* the group stored without and with its suffix
AuthAllowedGroups ==
  { InitAllowedGroups,
    << [groupId |-> GroupJid(GroupId("1")), name |-> "Family", type |-> "GENERAL"] >> }

ContactRequests ==
  { [phone |-> Phone("5"), name |-> "New", type |-> "VIP", lid |-> LidLong],
    [phone |-> Phone("3"), name |-> "New", type |-> "PERSONAL", lid |-> EMPTY],
    [phone |-> PhoneDashed("3"), name |-> "New", type |-> "VIP", lid |-> EMPTY],
    [phone |-> <<"1", "2">>, name |-> "New", type |-> "VIP", lid |-> EMPTY],
    [phone |-> Phone("5"), name |-> "New", type |-> "VIP", lid |-> <<"1", "2">>] }

GroupRequests ==
  { [groupId |-> gid, name |-> "Grp", type |-> ""] :
      gid \in {GroupId("1"), GroupJid(GroupId("1")), GroupId("2"), GroupJid(GroupId("2")),
               <<"1", "2">>} }

InitAuth ==
  /\ env = Env(FALSE, FALSE, NOURL, FALSE, NOURL)
  /\ connectedPhone \in {EMPTY, SelfPhone}
  /\ defaultWebhookUrl = URL_DEFAULT
  /\ typeWebhooks = [t \in {} |-> NOURL]
  /\ config \in { [allowedNumbers |-> an, allowedGroups |-> ag] :
                     an \in AuthAllowedNumbers, ag \in AuthAllowedGroups }
  /\ InitServices
  /\ InitSystem

NextAuth ==
  \/ \E data \in AuthMessages : nEvents < MaxAuthEvents /\ RouteUpsert(1, data)
  \/ PrimaryResponds(1, "200")
  \/ ForwardReturns(1)
  \/ \E req \in ContactRequests : AddContact(req)
  \/ \E req \in GroupRequests : AddGroup(req)

SpecAuth == InitAuth /\ [][NextAuth]_vars

\* ------------------------------------------------------------------------
\* SpecStore: the message store alone. Messages arrive with the timestamp of
\* their payload, in any order and with repetitions; a messages.json written by
\* an earlier run may be loaded at start-up; the messages of a phone may be
\* deleted through the admin API.
StorePhones == {Phone("3"), GroupId("1")}
StoreStamps == {1, 2}

\* messages.json of an earlier run that had a larger total limit: one phone
\* with MAX_TOTAL_MESSAGES + 1 messages, newest first
StoreFile ==
  [k \in {Phone("3")} |->
     [i \in 1..(MAX_TOTAL_MESSAGES + 1) |->
        [id |-> "old", fromMe |-> FALSE, timestamp |-> 1, storedAt |-> 0 - i,
         keyCreated |-> 0]]]

\* messageStore.load() at start-up, when messages.json exists
Load ==
  /\ storeClock = 1
  /\ nAdmin = 0
  /\ messageStore = [k \in {} |-> <<>>]
  /\ Commit([Cur EXCEPT !.messageStore = StoreFile])
  /\ UNCHANGED <<reached3, nEvents>>
  /\ Unchanged_config

\* messageStore.storeMessage(sourceId, messageContent) as the handlers call it,
\* the content carrying the timestamp of its payload
StoreMessage(phone, ts) ==
  /\ nEvents < MaxStoreOps
  /\ nEvents' = nEvents + 1
  /\ Commit(storeMessage(Cur, phone,
                         [id |-> "new", body |-> <<"hi">>, type |-> "text", fromMe |-> FALSE,
                          timestamp |-> ts]))
  /\ UNCHANGED reached3
  /\ Unchanged_config

\* DELETE /api/messages/:phone; written tells whether the save that follows
\* a deletion wrote messages.json
DeleteMessages(phone, written) ==
  /\ nAdmin < MaxAdminOps
  /\ nAdmin' = nAdmin + 1
  /\ LET count == IF SelectSeq(phone, IsDigit) \in DOMAIN messageStore
                  THEN Len(messageStore[SelectSeq(phone, IsDigit)]) ELSE 0
         S1 == deleteMessages(Cur, phone)
     IN IF count = 0
        THEN /\ adminResponse' = [op |-> "DELETE /api/messages/:phone", status |-> 404]
             /\ Commit(S1)
        ELSE /\ adminResponse' = [op |-> "DELETE /api/messages/:phone", status |-> 200]
             /\ Commit([S1 EXCEPT !.isDirty = ~written])
  /\ UNCHANGED <<env, config, connectedPhone, defaultWebhookUrl, typeWebhooks,
                 secondaryWebhookUrl, reached3, nEvents>>
  /\ Unchanged_system

InitStore ==
  /\ env = Env(FALSE, FALSE, NOURL, FALSE, NOURL)
  /\ connectedPhone = EMPTY
  /\ defaultWebhookUrl = URL_DEFAULT
  /\ typeWebhooks = [t \in {} |-> NOURL]
  /\ InitState

NextStore ==
  \/ Load
  \/ \E phone \in StorePhones : \E ts \in StoreStamps : StoreMessage(phone, ts)
  \/ \E phone \in StorePhones : \E written \in BOOLEAN : DeleteMessages(phone, written)

SpecStore == InitStore /\ [][NextStore]_vars

\* ------------------------------------------------------------------------
\* SpecPersist: the three files of the process, the saves that write them (the
\* save timers and the signal handlers) and the end of the process, by
\* process.exit or by a crash.

Running == proc.status = "running"

\* SIGTERM or SIGINT is delivered: the listeners run in the order they were
\* registered, each up to its first await. The listener of the server
\* (registered when the module is loaded) awaits baileysEvents.stop() or the
\* mkdir of saveConfig; the listener of stats.js (registered by startAutoSave)
\* awaits the writeFile of save()
Signal ==
  /\ Running
  /\ proc.server = "idle"
  /\ proc' = [proc EXCEPT !.server = IF proc.baileysEnabled THEN "stop" ELSE "mkdir",
                          !.statsSignal = "write"]
  /\ disk' = writeFile(disk, "stats.json")
  /\ Commit(Cur)
  /\ UNCHANGED <<env, config, connectedPhone, defaultWebhookUrl, secondaryWebhookUrl,
                 typeWebhooks, nAdmin, adminResponse, reached3, nEvents, envWebhookUrl,
                 connectionState, retryCount, reconnectDelays,
                 ingress, autoSaves, saves, alertSink, mediaStore>>

\* the listener of the server goes on after one of its awaits
ServerHandlerStep ==
  /\ Running
  /\ proc.server \in {"stop", "mkdir", "config", "stats", "store"}
  /\ CASE proc.server = "stop" ->
            \* baileysEvents.stop() is over; saveConfig awaits fs.mkdir
            /\ proc' = [proc EXCEPT !.server = "mkdir"]
            /\ UNCHANGED disk
            /\ Commit(Cur)
       [] proc.server = "mkdir" ->
            \* saveConfig writes contacts.json
            /\ proc' = [proc EXCEPT !.server = "config"]
            /\ disk' = writeFile(disk, "contacts.json")
            /\ Commit(Cur)
       [] proc.server = "config" ->
            \* contacts.json is written; statsService.save() writes stats.json
            /\ proc' = [proc EXCEPT !.server = "stats"]
            /\ disk' = writeFile(writeFileDone(disk, "contacts.json"), "stats.json")
            /\ Commit(Cur)
       [] proc.server = "stats" ->
            \* stats.json is written; messageStore.save() returns at once when
            \* the store is not dirty, and process.exit(0) follows
            IF isDirty
            THEN /\ proc' = [proc EXCEPT !.server = "store"]
                 /\ disk' = writeFile(writeFileDone(disk, "stats.json"), "messages.json")
                 /\ Commit(Cur)
            ELSE /\ proc' = [proc EXCEPT !.server = "done", !.status = "exited"]
                 /\ disk' = writeFileDone(disk, "stats.json")
                 /\ Commit(Cur)
       [] proc.server = "store" ->
            \* messages.json is written; process.exit(0)
            /\ proc' = [proc EXCEPT !.server = "done", !.status = "exited"]
            /\ disk' = writeFileDone(disk, "messages.json")
            /\ Commit([Cur EXCEPT !.isDirty = FALSE])
  /\ UNCHANGED <<env, config, connectedPhone, defaultWebhookUrl, secondaryWebhookUrl,
                 typeWebhooks, nAdmin, adminResponse, reached3, nEvents, envWebhookUrl,
                 connectionState, retryCount, reconnectDelays,
                 ingress, autoSaves, saves, alertSink, mediaStore>>

\* the listener of stats.js goes on after `await save()`: process.exit(0)
StatsHandlerStep ==
  /\ Running
  /\ proc.statsSignal = "write"
  /\ proc' = [proc EXCEPT !.statsSignal = "done", !.status = "exited"]
  /\ disk' = writeFileDone(disk, "stats.json")
  /\ Commit(Cur)
  /\ UNCHANGED <<env, config, connectedPhone, defaultWebhookUrl, secondaryWebhookUrl,
                 typeWebhooks, nAdmin, adminResponse, reached3, nEvents, envWebhookUrl,
                 connectionState, retryCount, reconnectDelays,
                 ingress, autoSaves, saves, alertSink, mediaStore>>

\* the save timer of stats.js or of the message store fires: save() up to the
\* await of its writeFile (the message store saves only when dirty)
TimerSaveBegin(f) ==
  /\ Running
  /\ f \notin proc.timers
  /\ f = "messages.json" => isDirty
  /\ proc' = [proc EXCEPT !.timers = @ \cup {f}]
  /\ disk' = writeFile(disk, f)
  /\ Commit(Cur)
  /\ UNCHANGED <<env, config, connectedPhone, defaultWebhookUrl, secondaryWebhookUrl,
                 typeWebhooks, nAdmin, adminResponse, reached3, nEvents, envWebhookUrl,
                 connectionState, retryCount, reconnectDelays,
                 ingress, autoSaves, saves, alertSink, mediaStore>>

\* the writeFile of a timer's save() is over
TimerSaveDone(f) ==
  /\ Running
  /\ f \in proc.timers
  /\ proc' = [proc EXCEPT !.timers = @ \ {f}]
  /\ disk' = writeFileDone(disk, f)
  /\ Commit(IF f = "messages.json" THEN [Cur EXCEPT !.isDirty = FALSE] ELSE Cur)
  /\ UNCHANGED <<env, config, connectedPhone, defaultWebhookUrl, secondaryWebhookUrl,
                 typeWebhooks, nAdmin, adminResponse, reached3, nEvents, envWebhookUrl,
                 connectionState, retryCount, reconnectDelays,
                 ingress, autoSaves, saves, alertSink, mediaStore>>

\* the process is killed or the machine stops
Crash ==
  /\ Running
  /\ proc' = [proc EXCEPT !.status = "killed"]
  /\ Commit(Cur)
  /\ UNCHANGED <<env, config, connectedPhone, defaultWebhookUrl, secondaryWebhookUrl,
                 typeWebhooks, nAdmin, adminResponse, reached3, nEvents, envWebhookUrl,
                 disk, connectionState, retryCount, reconnectDelays,
                 ingress, autoSaves, saves, alertSink, mediaStore>>

PersistMessages == { m \in Messages : m.id \in {"m1", "m3"} }

\* the three files hold what the last run saved, which is the state loaded
InitPersist ==
  /\ env = Env(FALSE, FALSE, NOURL, FALSE, NOURL)
  /\ connectedPhone = EMPTY
  /\ defaultWebhookUrl = NOURL
  /\ typeWebhooks = [t \in {} |-> NOURL]
  /\ config = [allowedNumbers |-> InitAllowedNumbers, allowedGroups |-> InitAllowedGroups]
  /\ InitServices
  /\ envWebhookUrl = NOURL
  /\ disk = [f \in Files |-> [state |-> "complete", data |-> Serialized(f), writers |-> 0]]
  /\ proc \in { [ProcRunning EXCEPT !.baileysEnabled = b] : b \in BOOLEAN }
  /\ connectionState = [status |-> "unknown", qrAvailable |-> FALSE]
  /\ retryCount = 0
  /\ reconnectDelays = <<>>
  /\ InitSideServices

NextPersist ==
  \/ \E data \in PersistMessages :
       Running /\ nEvents < MaxPersistEvents /\ RouteUpsert(1, data)
  \/ Signal
  \/ ServerHandlerStep
  \/ StatsHandlerStep
  \/ \E f \in {"stats.json", "messages.json"} : TimerSaveBegin(f)
  \/ \E f \in {"stats.json", "messages.json"} : TimerSaveDone(f)
  \/ Crash

SpecPersist == InitPersist /\ [][NextPersist]_vars

\* ------------------------------------------------------------------------
\* SpecConn: the connection events of the ingress endpoint and the connection
\* service.

\* STATE_MAP[state] || state
STATE_MAP(state) ==
  CASE state \in {"open", "connected"} -> "connected"
    [] state = "connecting" -> "connecting"
    [] state \in {"close", "disconnected"} -> "disconnected"
    [] state \in {"logged_out", "logout"} -> "logged_out"
    [] OTHER -> state

\* connectionService.updateStatus(state, payload)
updateStatus(cs, state) ==
  LET newStatus == STATE_MAP(state)
  IN [status |-> newStatus,
      qrAvailable |-> IF newStatus = "connected" THEN FALSE ELSE cs.qrAvailable]

\* connectionService.setQRCode(qrCode); qrCode is NULL when the payload has none
setQRCode(cs, qrCode) ==
  IF qrCode = NULL THEN cs ELSE [cs EXCEPT !.qrAvailable = TRUE]

\* connection.js handleUpdate: the alert it sends, if any
handleUpdate_alert(S, previousState, newStatus) ==
  IF newStatus = previousState THEN S
  ELSE IF newStatus = "connected" THEN alertSend(S, "info", "connection_connected")
  ELSE IF newStatus = "disconnected" THEN alertSend(S, "critical", "connection_disconnected")
  ELSE IF newStatus = "connecting" THEN alertSend(S, "warning", "connection_connecting")
  ELSE S

\* routeEvent('CONNECTION_UPDATE', payload); state is payload.state ||
\* payload.status || payload.connection, NULL when the payload has none
ConnectionUpdate(p, state) ==
  /\ FreeSlot(p)
  /\ LET previousState == connectionState.status
         result == updateStatus(connectionState, state)
         S1 == increment(Cur, "CONNECTION_UPDATE", "total")
         S2 == [S1 EXCEPT !.h[p] = [IdleSlot EXCEPT !.pc = "run", !.event = "CONNECTION_UPDATE"]]
         S3 == logEvent(S2, StoredEvent("CONNECTION_UPDATE", EMPTY, NULL, NULL, "processed",
                                        NULL, NULL))
     IN /\ connectionState' = result
        /\ Commit(Return(handleUpdate_alert(S3, previousState, result.status), p,
                         "processed", NULL))
  /\ nEvents' = nEvents + 1
  /\ UNCHANGED <<env, config, connectedPhone, defaultWebhookUrl, secondaryWebhookUrl,
                 typeWebhooks, nAdmin, adminResponse, reached3, envWebhookUrl, disk, proc,
                 retryCount, reconnectDelays,
                 ingress, autoSaves, saves, alertSink, mediaStore>>

\* routeEvent('QRCODE_UPDATED', payload); qrCode is payload.qrcode ||
\* payload.base64 || payload.code
QRCodeUpdated(p, qrCode) ==
  /\ FreeSlot(p)
  /\ LET S1 == increment(Cur, "QRCODE_UPDATED", "total")
         S2 == [S1 EXCEPT !.h[p] = [IdleSlot EXCEPT !.pc = "run", !.event = "QRCODE_UPDATED"]]
         S3 == logEvent(S2, StoredEvent("QRCODE_UPDATED", EMPTY, NULL, NULL, "qr_stored",
                                        NULL, NULL))
     IN /\ connectionState' = setQRCode(connectionState, qrCode)
        /\ Commit(Return(alertSend(S3, "critical", "qrcode_needed"), p, "qr_stored", NULL))
  /\ nEvents' = nEvents + 1
  /\ UNCHANGED <<env, config, connectedPhone, defaultWebhookUrl, secondaryWebhookUrl,
                 typeWebhooks, nAdmin, adminResponse, reached3, envWebhookUrl, disk, proc,
                 retryCount, reconnectDelays,
                 ingress, autoSaves, saves, alertSink, mediaStore>>

\* routeEvent('LOGOUT_INSTANCE', payload)
LogoutInstance(p) ==
  /\ FreeSlot(p)
  /\ LET S1 == increment(Cur, "LOGOUT_INSTANCE", "total")
         S2 == [S1 EXCEPT !.h[p] = [IdleSlot EXCEPT !.pc = "run", !.event = "LOGOUT_INSTANCE"]]
         S3 == logEvent(S2, StoredEvent("LOGOUT_INSTANCE", EMPTY, NULL, NULL, "alert_sent",
                                        NULL, NULL))
     IN /\ connectionState' = updateStatus(connectionState, "logged_out")
        /\ Commit(Return(alertSend(S3, "critical", "logout"), p, "alert_sent", NULL))
  /\ nEvents' = nEvents + 1
  /\ UNCHANGED <<env, config, connectedPhone, defaultWebhookUrl, secondaryWebhookUrl,
                 typeWebhooks, nAdmin, adminResponse, reached3, envWebhookUrl, disk, proc,
                 retryCount, reconnectDelays,
                 ingress, autoSaves, saves, alertSink, mediaStore>>

\* the states an upstream sends: the mapped ones, one the map does not know,
\* and none
PayloadStates == {"open", "connecting", "close", "logout", "refused", NULL}

InitConn ==
  /\ env = Env(FALSE, FALSE, NOURL, FALSE, NOURL)
  /\ connectedPhone = EMPTY
  /\ defaultWebhookUrl = URL_DEFAULT
  /\ typeWebhooks = [t \in {} |-> NOURL]
  /\ InitState

NextConn ==
  \/ \E state \in PayloadStates : nEvents < MaxConnEvents /\ ConnectionUpdate(1, state)
  \/ \E qrCode \in {"qr", NULL} : nEvents < MaxConnEvents /\ QRCodeUpdated(1, qrCode)
  \/ nEvents < MaxConnEvents /\ LogoutInstance(1)

SpecConn == InitConn /\ [][NextConn]_vars

\* ------------------------------------------------------------------------
\* SpecContacts: the contact endpoints of the admin API.

\* the index of the first contact stored under exactly this phone, 0 if none
\* (findIndex(c => c.phone === phone))
ContactIndex(allowedNumbers, phone) ==
  IF \E i \in 1..Len(allowedNumbers) : allowedNumbers[i].phone = phone
  THEN CHOOSE i \in 1..Len(allowedNumbers) :
         /\ allowedNumbers[i].phone = phone
         /\ \A j \in 1..(i-1) : allowedNumbers[j].phone # phone
  ELSE 0

\* a contact without its lid field
WithoutLid(contact) == [f \in DOMAIN contact \ {"lid"} |-> contact[f]]

\* a contact with its lid field set
WithLid(contact, lid) ==
  [f \in DOMAIN contact \cup {"lid"} |-> IF f = "lid" THEN lid ELSE contact[f]]

\* POST /api/contacts with body {contacts}: the list replaces the stored one
ReplaceContacts(contacts) ==
  /\ nAdmin < MaxContactOps
  /\ nAdmin' = nAdmin + 1
  /\ LET op == "POST /api/contacts"
     IN IF \E i \in 1..Len(contacts) :
             \/ contacts[i].phone = EMPTY \/ contacts[i].name = "" \/ contacts[i].type = ""
        THEN adminResponse' = [op |-> op, status |-> 400] /\ UNCHANGED config
        ELSE /\ config' = [config EXCEPT !.allowedNumbers = contacts]
             /\ adminResponse' = [op |-> op, status |-> 200]
  /\ Commit(Cur)
  /\ UNCHANGED <<env, connectedPhone, defaultWebhookUrl, typeWebhooks, secondaryWebhookUrl,
                 reached3, nEvents>>
  /\ saveConfig

\* PUT /api/contacts/:phone with body {name, type, lid}; a field the body does
\* not have is NULL (name, type) or has hasLid = FALSE. The fields are checked
\* and assigned one after the other, on the stored contact itself.
UpdateContact(phone, req) ==
  /\ nAdmin < MaxContactOps
  /\ nAdmin' = nAdmin + 1
  /\ LET op == "PUT /api/contacts/:phone"
         contactIndex == ContactIndex(config.allowedNumbers, phone)
         contact == config.allowedNumbers[contactIndex]
         nameOk == req.name = NULL \/ isValidName(req.name)
         c1 == IF req.name # NULL /\ nameOk THEN [contact EXCEPT !.name = req.name]
               ELSE contact
         typeOk == req.type = NULL \/ req.type \in ValidContactTypes
         c2 == IF nameOk /\ req.type # NULL /\ typeOk THEN [c1 EXCEPT !.type = req.type]
               ELSE c1
         lidOk == ~req.hasLid \/ req.lid = EMPTY \/ AllDigits(req.lid, 10, 25)
         c3 == IF nameOk /\ typeOk /\ req.hasLid /\ lidOk
               THEN IF req.lid = EMPTY THEN WithoutLid(c2) ELSE WithLid(c2, req.lid)
               ELSE c2
     IN IF contactIndex = 0
        THEN adminResponse' = [op |-> op, status |-> 404] /\ UNCHANGED config
        ELSE /\ config' = [config EXCEPT !.allowedNumbers[contactIndex] = c3]
             /\ adminResponse' = [op |-> op,
                                  status |-> IF nameOk /\ typeOk /\ lidOk THEN 200 ELSE 400]
  /\ Commit(Cur)
  /\ UNCHANGED <<env, connectedPhone, defaultWebhookUrl, typeWebhooks, secondaryWebhookUrl,
                 reached3, nEvents>>
  /\ saveConfig

\* DELETE /api/contacts/:phone
DeleteContact(phone) ==
  /\ nAdmin < MaxContactOps
  /\ nAdmin' = nAdmin + 1
  /\ LET op == "DELETE /api/contacts/:phone"
         contactIndex == ContactIndex(config.allowedNumbers, phone)
         an == config.allowedNumbers
     IN IF contactIndex = 0
        THEN adminResponse' = [op |-> op, status |-> 404] /\ UNCHANGED config
        ELSE /\ config' = [config EXCEPT !.allowedNumbers =
                              SubSeq(an, 1, contactIndex - 1)
                                \o SubSeq(an, contactIndex + 1, Len(an))]
             /\ adminResponse' = [op |-> op, status |-> 200]
  /\ Commit(Cur)
  /\ UNCHANGED <<env, connectedPhone, defaultWebhookUrl, typeWebhooks, secondaryWebhookUrl,
                 reached3, nEvents>>
  /\ saveConfig

\* the bodies of POST /api/contacts: an empty list, a list of two different
\* phones, one phone written twice, one phone in two forms, a contact without
\* a name
ContactLists ==
  { <<>>,
    << [phone |-> Phone("5"), name |-> "A", type |-> "VIP"],
       [phone |-> Phone("6"), name |-> "B", type |-> "TEAM"] >>,
    << [phone |-> Phone("5"), name |-> "A", type |-> "VIP"],
       [phone |-> Phone("5"), name |-> "B", type |-> "TEAM"] >>,
    << [phone |-> Phone("5"), name |-> "A", type |-> "VIP"],
       [phone |-> PhoneDashed("5"), name |-> "B", type |-> "TEAM"] >>,
    << [phone |-> Phone("5"), name |-> "", type |-> "VIP"] >> }

\* the phones of the :phone parameter
ContactKeys == {<<"+">> \o Phone("3"), Phone("3"), Phone("4"), Phone("5")}

\* the bodies of PUT /api/contacts/:phone
ContactUpdates ==
  { [name |-> "Renamed", type |-> NULL, hasLid |-> FALSE, lid |-> EMPTY],
    [name |-> "Renamed", type |-> "NOTYPE", hasLid |-> FALSE, lid |-> EMPTY],
    [name |-> NULL, type |-> "BUSINESS", hasLid |-> TRUE, lid |-> LidLong],
    [name |-> NULL, type |-> NULL, hasLid |-> TRUE, lid |-> EMPTY],
    [name |-> NULL, type |-> NULL, hasLid |-> TRUE, lid |-> <<"1", "2">>] }

InitContacts ==
  /\ env = Env(FALSE, FALSE, NOURL, FALSE, NOURL)
  /\ connectedPhone = EMPTY
  /\ defaultWebhookUrl = URL_DEFAULT
  /\ typeWebhooks = [t \in {} |-> NOURL]
  /\ config \in { [allowedNumbers |-> an, allowedGroups |-> InitAllowedGroups] :
                     an \in {<<>>, InitAllowedNumbers} }
  /\ InitServices
  /\ InitSystem

NextContacts ==
  \/ \E req \in ContactRequests : AddContact(req)
  \/ \E contacts \in ContactLists : ReplaceContacts(contacts)
  \/ \E phone \in ContactKeys : \E req \in ContactUpdates : UpdateContact(phone, req)
  \/ \E phone \in ContactKeys : DeleteContact(phone)

SpecContacts == InitContacts /\ [][NextContacts]_vars

\* ------------------------------------------------------------------------
\* SpecConfig: the default destination from the environment and from the
\* configuration file, from the start of the process to its shutdown.

\* a contacts.json as a save left it; webhookUrl is NOURL when the file has
\* no such field
SavedFile(webhookUrl) ==
  LET base == [allowedNumbers |-> InitAllowedNumbers,
               allowedGroups |-> InitAllowedGroups,
               typeWebhooks |-> [t \in {} |-> NOURL]]
  IN [state |-> "complete", writers |-> 0,
      data |-> IF webhookUrl = NOURL THEN base
               ELSE [f \in DOMAIN base \cup {"webhookUrl"} |->
                       IF f = "webhookUrl" THEN webhookUrl ELSE base[f]]]

\* loadConfig(): a file that is missing or cannot be parsed leaves the
\* defaults; process.env.WEBHOOK_URL || savedConfig.webhookUrl || ''
LoadConfig ==
  /\ proc.status = "starting"
  /\ proc' = [proc EXCEPT !.status = "running"]
  /\ LET file == disk["contacts.json"]
     IN IF file.state = "complete"
        THEN /\ config' = [allowedNumbers |-> file.data.allowedNumbers,
                           allowedGroups |-> file.data.allowedGroups]
             /\ typeWebhooks' = file.data.typeWebhooks
             /\ defaultWebhookUrl' =
                  IF envWebhookUrl # NOURL THEN envWebhookUrl
                  ELSE IF "webhookUrl" \in DOMAIN file.data THEN file.data.webhookUrl
                  ELSE NOURL
        ELSE /\ UNCHANGED config
             /\ typeWebhooks' = [t \in {} |-> NOURL]
             /\ defaultWebhookUrl' = envWebhookUrl
  /\ Commit(Cur)
  /\ UNCHANGED <<env, connectedPhone, secondaryWebhookUrl, nAdmin, adminResponse, reached3,
                 nEvents, envWebhookUrl, disk, connectionState, retryCount, reconnectDelays,
                 ingress, autoSaves, saves, alertSink, mediaStore>>

ConfigMessages == { m \in Messages : m.id \in {"m1", "m3"} }

\* the process before loadConfig: `let config = {webhookUrl:
\* process.env.WEBHOOK_URL, allowedNumbers: [], allowedGroups: []}`
InitConfig ==
  /\ env = Env(FALSE, FALSE, NOURL, FALSE, NOURL)
  /\ connectedPhone = EMPTY
  /\ envWebhookUrl \in {NOURL, URL_ENV}
  /\ defaultWebhookUrl = NOURL
  /\ typeWebhooks = [t \in {} |-> NOURL]
  /\ config = [allowedNumbers |-> <<>>, allowedGroups |-> <<>>]
  /\ InitServices
  /\ disk \in { [f \in Files |-> IF f = "contacts.json" THEN file ELSE NoFile] :
                   file \in {NoFile, SavedFile(NOURL), SavedFile(URL_DEFAULT)} }
  /\ proc = [ProcRunning EXCEPT !.status = "starting"]
  /\ connectionState = [status |-> "unknown", qrAvailable |-> FALSE]
  /\ retryCount = 0
  /\ reconnectDelays = <<>>
  /\ InitSideServices

NextConfig ==
  \/ LoadConfig
  \/ \E data \in ConfigMessages : Running /\ nEvents < MaxEvents /\ RouteUpsert(1, data)
  \/ PrimaryResponds(1, "200")
  \/ ForwardReturns(1)
  \/ \E url \in {NOURL, URL_DEFAULT, URL_VIP} : Running /\ SetDefaultWebhook(url)
  \/ \E req \in ContactRequests : Running /\ AddContact(req)
  \/ Signal
  \/ ServerHandlerStep
  \/ StatsHandlerStep

SpecConfig == InitConfig /\ [][NextConfig]_vars

\* ------------------------------------------------------------------------
\* SpecAdapter: the connection of the built-in WhatsApp adapter and its
\* reconnects.

ADAPTER_MAX_RETRIES == 5
RECONNECT_DELAY_CAP == 30000

\* Math.min(1000 * Math.pow(2, retryCount), 30000), in milliseconds
ReconnectDelay(count) ==
  IF 1000 * Pow2(count) < RECONNECT_DELAY_CAP THEN 1000 * Pow2(count)
  ELSE RECONNECT_DELAY_CAP

\* the callback registered with onConnectionChange: the connection service
\* after update {status, qrCode}
onConnectionChange_state(cs, status, qrCode) ==
  LET mappedStatus == CASE status \in {"connected", "connecting", "disconnected"} -> status
                        [] status = "waiting_qr" -> "connecting"
                        [] status = "error" -> "disconnected"
                        [] OTHER -> "unknown"
  IN setQRCode(updateStatus(cs, mappedStatus), qrCode)

\* the callback registered with onConnectionChange: its alert
onConnectionChange_alert(S, status, willReconnect) ==
  IF status = "disconnected" /\ ~willReconnect
  THEN alertSend(S, "critical", "baileys_disconnected")
  ELSE IF status = "connected" THEN alertSend(S, "info", "baileys_connected")
  ELSE S

\* connect(): POST /api/baileys/connect or the start of the bridge creates the
\* socket (none can be created here while a reconnect is scheduled)
Connect ==
  /\ proc.socket = "none"
  /\ "reconnect" \notin proc.timers
  /\ proc' = [proc EXCEPT !.socket = "created"]
  /\ Commit(Cur)
  /\ UNCHANGED <<env, config, connectedPhone, defaultWebhookUrl, secondaryWebhookUrl,
                 typeWebhooks, nAdmin, adminResponse, reached3, nEvents, envWebhookUrl,
                 disk, connectionState, retryCount, reconnectDelays,
                 ingress, autoSaves, saves, alertSink, mediaStore>>

\* the timer set by setTimeout(() => connect(), delay) fires
ReconnectTimer ==
  /\ "reconnect" \in proc.timers
  /\ proc' = [proc EXCEPT !.socket = "created", !.timers = @ \ {"reconnect"}]
  /\ Commit(Cur)
  /\ UNCHANGED <<env, config, connectedPhone, defaultWebhookUrl, secondaryWebhookUrl,
                 typeWebhooks, nAdmin, adminResponse, reached3, nEvents, envWebhookUrl,
                 disk, connectionState, retryCount, reconnectDelays,
                 ingress, autoSaves, saves, alertSink, mediaStore>>

\* connection.update with connection 'connecting'
ConnectionConnecting ==
  /\ proc.socket = "created"
  /\ proc' = [proc EXCEPT !.socket = "connecting"]
  /\ connectionState' = onConnectionChange_state(connectionState, "connecting", NULL)
  /\ Commit(onConnectionChange_alert(Cur, "connecting", FALSE))
  /\ UNCHANGED <<env, config, connectedPhone, defaultWebhookUrl, secondaryWebhookUrl,
                 typeWebhooks, nAdmin, adminResponse, reached3, nEvents, envWebhookUrl,
                 disk, retryCount, reconnectDelays,
                 ingress, autoSaves, saves, alertSink, mediaStore>>

\* connection.update with a qr: the status is waiting_qr
ConnectionQr ==
  /\ proc.socket = "connecting"
  /\ ~connectionState.qrAvailable
  /\ connectionState' = onConnectionChange_state(connectionState, "waiting_qr", "qr")
  /\ Commit(onConnectionChange_alert(Cur, "waiting_qr", FALSE))
  /\ UNCHANGED <<env, config, connectedPhone, defaultWebhookUrl, secondaryWebhookUrl,
                 typeWebhooks, nAdmin, adminResponse, reached3, nEvents, envWebhookUrl,
                 disk, proc, retryCount, reconnectDelays,
                 ingress, autoSaves, saves, alertSink, mediaStore>>

\* connection.update with connection 'open'
ConnectionOpen ==
  /\ proc.socket \in {"created", "connecting"}
  /\ proc' = [proc EXCEPT !.socket = "open"]
  /\ retryCount' = 0
  /\ reconnectDelays' = <<>>
  /\ connectionState' = onConnectionChange_state(connectionState, "connected", NULL)
  /\ connectedPhone' = SelfPhone
  /\ Commit(onConnectionChange_alert(Cur, "connected", FALSE))
  /\ UNCHANGED <<env, config, defaultWebhookUrl, secondaryWebhookUrl, typeWebhooks, nAdmin,
                 adminResponse, reached3, nEvents, envWebhookUrl, disk,
                 ingress, autoSaves, saves, alertSink, mediaStore>>

\* connection.update with connection 'close'; loggedOut tells whether the
\* status code is DisconnectReason.loggedOut. reconnectDelays lists the delays
\* scheduled since retryCount was last 0.
ConnectionClose(loggedOut) ==
  /\ proc.socket # "none"
  /\ LET shouldReconnect == ~loggedOut
         retry == shouldReconnect /\ retryCount < ADAPTER_MAX_RETRIES
         count == IF retry THEN retryCount + 1 ELSE IF loggedOut THEN 0 ELSE retryCount
         willReconnect == shouldReconnect /\ count < ADAPTER_MAX_RETRIES
     IN /\ retryCount' = count
        /\ reconnectDelays' = IF retry THEN Append(reconnectDelays, ReconnectDelay(count))
                              ELSE IF loggedOut THEN <<>> ELSE reconnectDelays
        /\ proc' = [proc EXCEPT !.socket = "none",
                                !.timers = IF retry THEN @ \cup {"reconnect"} ELSE @]
        /\ connectionState' = onConnectionChange_state(connectionState, "disconnected", NULL)
        /\ Commit(onConnectionChange_alert(Cur, "disconnected", willReconnect))
  /\ nEvents' = nEvents + 1
  /\ UNCHANGED <<env, config, connectedPhone, defaultWebhookUrl, secondaryWebhookUrl,
                 typeWebhooks, nAdmin, adminResponse, reached3, envWebhookUrl, disk,
                 ingress, autoSaves, saves, alertSink, mediaStore>>

InitAdapter ==
  /\ env = Env(FALSE, FALSE, NOURL, FALSE, NOURL)
  /\ connectedPhone = EMPTY
  /\ defaultWebhookUrl = URL_DEFAULT
  /\ typeWebhooks = [t \in {} |-> NOURL]
  /\ config = [allowedNumbers |-> InitAllowedNumbers, allowedGroups |-> InitAllowedGroups]
  /\ InitServices
  /\ envWebhookUrl = NOURL
  /\ disk = [f \in Files |-> NoFile]
  /\ proc = [ProcRunning EXCEPT !.baileysEnabled = TRUE]
  /\ connectionState = [status |-> "unknown", qrAvailable |-> FALSE]
  /\ retryCount = 0
  /\ reconnectDelays = <<>>
  /\ InitSideServices

NextAdapter ==
  \/ Connect
  \/ ReconnectTimer
  \/ ConnectionConnecting
  \/ ConnectionQr
  \/ ConnectionOpen
  \/ \E loggedOut \in BOOLEAN : nEvents < MaxAdapterCloses /\ ConnectionClose(loggedOut)

SpecAdapter == InitAdapter /\ [][NextAdapter]_vars

\* ------------------------------------------------------------------------
\* SpecOut: outgoing messages, message updates and the events that are only
\* counted and logged.

\* outgoing messages to a VIP contact, to a contact of another type, to a phone
\* that is not a contact, to an allowed group and to a group that is not allowed
OutMessages == { m \in Messages : m.id \in {"m1", "m2", "m3", "m4", "m5"} }

\* events of handleDelete, of handleSet and of the generic handler (one kind
\* the dispatch table does not know, and PRESENCE_UPDATE)
OutOtherEvents == {"MESSAGES_DELETE", "MESSAGES_SET", "NEW_KIND", "PRESENCE_UPDATE"}

InitOut ==
  /\ env \in { Env(FALSE, FALSE, NOURL, up, su) :
                 up \in BOOLEAN, su \in {NOURL, URL_SECONDARY} }
  /\ connectedPhone = EMPTY
  /\ defaultWebhookUrl \in {NOURL, URL_DEFAULT}
  /\ typeWebhooks \in TypeWebhookMaps
  /\ InitState

NextOut ==
  \/ \E data \in OutMessages : nEvents < MaxOutEvents /\ RouteSend(1, data)
  \/ \E data \in UpdateMessages : nEvents < MaxOutEvents /\ RouteUpdate(1, data)
  \/ \E event \in OutOtherEvents : nEvents < MaxOutEvents /\ RouteOther(1, event)
  \/ \E o \in {"200", "503"} : PrimaryResponds(1, o)
  \/ BackoffElapses(1)
  \/ ForwardReturns(1)
  \/ \E o \in {"200", "503"} : SecondaryResponds(o)

SpecOut == InitOut /\ [][NextOut]_vars

\* ------------------------------------------------------------------------
\* SpecSink: the alert service alone, under every setting of its two channels
\* (ALERTS_WEBHOOK_URL, SLACK_WEBHOOK_URL), with sends in flight at the same
\* time and POSTs that succeed or fail.
MaxSinkAlerts == 3
AlertLevels == {"info", "warning", "critical"}

\* statsService.incrementAlert(level, success) on stats.alerts
incrementAlert(alerts, level, success) ==
  IF success
  THEN [alerts EXCEPT !.sent = @ + 1,
                      !.byLevel = IF level \in DOMAIN @
                                  THEN [@ EXCEPT ![level] = @ + 1] ELSE @]
  ELSE [alerts EXCEPT !.failed = @ + 1]

\* send: the promises it pushes, one per POST it issues
sendPromises(channels, level) ==
  (IF "webhook" \in channels THEN {"webhook"} ELSE {})
    \cup (IF "slack" \in channels /\ level \in {"critical", "warning"} THEN {"slack"} ELSE {})

\* alertService.send(alert) up to `await Promise.allSettled(promises)`, or to
\* its return when no promise was pushed
Send(i, level) ==
  /\ nEvents < MaxSinkAlerts
  /\ nEvents' = nEvents + 1
  /\ alertSink.pending[i] = NoSend
  /\ LET promises == sendPromises(alertSink.channels, level)
     IN alertSink' =
          IF promises = {}
          THEN [alertSink EXCEPT !.returned =
                  Append(@, [level |-> level, sent |-> FALSE,
                             reason |-> "no_channels_configured"])]
          ELSE [alertSink EXCEPT !.pending[i] = [level |-> level, posts |-> promises],
                                 !.posts = @ + Cardinality(promises)]
  /\ Commit(alertSend(Cur, level, "webhook_failing"))
  /\ UNCHANGED <<reached3, ingress, autoSaves, saves, mediaStore>>
  /\ UNCHANGED <<env, config, connectedPhone, defaultWebhookUrl, secondaryWebhookUrl,
                 typeWebhooks, nAdmin, adminResponse, envWebhookUrl, disk, proc,
                 connectionState, retryCount, reconnectDelays>>

\* a POST of send i is answered (ok) or fails; once every promise is settled
\* Promise.allSettled resolves, the alert is counted and send returns
PostSettles(i, channel, ok) ==
  /\ alertSink.pending[i] # NoSend
  /\ channel \in alertSink.pending[i].posts
  /\ LET call == alertSink.pending[i]
         rest == call.posts \ {channel}
     IN alertSink' =
          IF rest # {}
          THEN [alertSink EXCEPT !.pending[i].posts = rest]
          ELSE [alertSink EXCEPT !.pending[i] = NoSend,
                                 !.alerts = incrementAlert(@, call.level, TRUE),
                                 !.returned = Append(@, [level |-> call.level, sent |-> TRUE,
                                                         reason |-> NULL])]
  /\ Commit(Cur)
  /\ UNCHANGED <<reached3, nEvents, ingress, autoSaves, saves, mediaStore>>
  /\ UNCHANGED <<env, config, connectedPhone, defaultWebhookUrl, secondaryWebhookUrl,
                 typeWebhooks, nAdmin, adminResponse, envWebhookUrl, disk, proc,
                 connectionState, retryCount, reconnectDelays>>

InitSink ==
  /\ env = Env(FALSE, FALSE, NOURL, FALSE, NOURL)
  /\ connectedPhone = EMPTY
  /\ defaultWebhookUrl = URL_DEFAULT
  /\ typeWebhooks = [t \in {} |-> NOURL]
  /\ config = [allowedNumbers |-> InitAllowedNumbers, allowedGroups |-> InitAllowedGroups]
  /\ InitServices
  /\ envWebhookUrl = NOURL
  /\ disk = [f \in Files |-> NoFile]
  /\ proc = ProcRunning
  /\ connectionState = [status |-> "unknown", qrAvailable |-> FALSE]
  /\ retryCount = 0
  /\ reconnectDelays = <<>>
  /\ ingress = [p \in Handlers |-> "none"]
  /\ autoSaves = 0
  /\ saves = [o \in Savers |-> NoSave]
  /\ alertSink \in { [NoAlertSink EXCEPT !.channels = ch] : ch \in SUBSET {"webhook", "slack"} }
  /\ mediaStore = EmptyMediaStore

NextSink ==
  \/ \E i \in SendIds, level \in AlertLevels : Send(i, level)
  \/ \E i \in SendIds, channel \in {"webhook", "slack"}, ok \in BOOLEAN :
       PostSettles(i, channel, ok)

SpecSink == InitSink /\ [][NextSink]_vars

\* ------------------------------------------------------------------------
\* SpecMedia: the media store alone. The message handlers of the adapter call
\* saveMedia while another call may be at one of its awaits; buffers are empty,
\* of an accepted size or too large; a write of a blob may fail.
MAX_MEDIA_FILES == 2
MAX_MEDIA_SIZE == 2
MaxMediaSaves == 4
MediaMessageIds == {"A", "B"}
MediaSizes == {0, 1, MAX_MEDIA_SIZE + 1}

\* what saveMedia returns when it returns null
NoMedia == <<>>

\* Object.keys(mediaIndex): the index is kept as the list of its entries in the
\* order their keys were created
IndexIds(index) == { index[i].id : i \in 1..Len(index) }

\* mediaIndex[mediaId] = entry: a new key goes last, a known key keeps its place
setEntry(index, entry) ==
  IF entry.id \in IndexIds(index)
  THEN [i \in 1..Len(index) |-> IF index[i].id = entry.id THEN entry ELSE index[i]]
  ELSE Append(index, entry)

\* delete mediaIndex[id]
deleteEntry(index, id) == SelectSeq(index, LAMBDA e : e.id # id)

\* getMedia(mediaId) finds an entry
getMedia(index, mediaId) == mediaId \in IndexIds(index)

\* cleanupIfNeeded, lines 355-361: the ids sorted by timestamp, oldest first (the
\* sort is stable), and the first ids.length - MAX_MEDIA_FILES of them
toRemove(index) ==
  LET n == Len(index)
      Before(i, j) == \/ index[i].timestamp < index[j].timestamp
                      \/ (index[i].timestamp = index[j].timestamp /\ i < j)
      Rank(j) == Cardinality({ i \in 1..n : Before(i, j) })
  IN [r \in 1..(n - MAX_MEDIA_FILES) |->
        index[CHOOSE j \in 1..n : Rank(j) = r - 1].id]

\* the loop of cleanupIfNeeded up to its next await: an id that is no longer in
\* the index makes mediaIndex[id].fileName throw, which the loop ignores; the
\* unlink of the first id that is there is awaited; after the last id the index
\* is saved
RECURSIVE cleanupLoop(_, _, _)
cleanupLoop(M, c, ids) ==
  IF ids = <<>>
  THEN [M EXCEPT !.calls[c].pc = "saveIndex2", !.calls[c].toRemove = <<>>,
                 !.indexFile = M.index]
  ELSE IF Head(ids) \notin IndexIds(M.index)
  THEN cleanupLoop(M, c, Tail(ids))
  ELSE [M EXCEPT !.calls[c].pc = "unlink", !.calls[c].toRemove = ids]

\* saveMedia returns: mediaId, or null
mediaReturn(M, c, mediaId) ==
  [M EXCEPT !.calls[c] = IdleMediaCall,
            !.nReturned = @ + 1,
            !.returned = [caller |-> c, mediaId |-> mediaId]]

\* saveMedia(messageId, buffer, mimeType) up to `await fs.writeFile(filePath,
\* buffer)`, or to its return when the buffer is rejected
saveMedia(M, c, messageId, size) ==
  IF size = 0 \/ size > MAX_MEDIA_SIZE
  THEN mediaReturn(M, c, NoMedia)
  ELSE [M EXCEPT !.calls[c] = [pc |-> "write", mediaId |-> <<messageId, M.clock>>,
                               size |-> size, toRemove |-> <<>>]]

\* the writeFile of the blob is over: on failure saveMedia returns null; else
\* the entry is put in the index and saveIndex is awaited. tick tells whether
\* the clock has advanced since an entry was last stamped
saveMediaWritten(M, c, ok, tick) ==
  LET call == M.calls[c]
      now == M.clock + tick
      index1 == setEntry(M.index, [id |-> call.mediaId, timestamp |-> now,
                                   size |-> call.size])
  IN IF ~ok
     THEN mediaReturn(M, c, NoMedia)
     ELSE [M EXCEPT !.clock = now,
                    !.files = @ \cup {call.mediaId},
                    !.index = index1,
                    !.indexFile = index1,
                    !.calls[c].pc = "saveIndex"]

\* saveIndex is over: cleanupIfNeeded up to its first await, or to its return
\* when the index is within MAX_MEDIA_FILES, after which saveMedia returns
cleanupIfNeeded(M, c) ==
  IF Len(M.index) <= MAX_MEDIA_FILES
  THEN mediaReturn(M, c, M.calls[c].mediaId)
  ELSE cleanupLoop(M, c, toRemove(M.index))

\* an unlink of cleanupIfNeeded is over: the entry is deleted and the loop goes on
cleanupUnlinked(M, c) ==
  LET id == Head(M.calls[c].toRemove)
  IN cleanupLoop([M EXCEPT !.files = @ \ {id}, !.index = deleteEntry(@, id)],
                 c, Tail(M.calls[c].toRemove))

\* one step of the media store; the rest of the process stands still
MediaStep(M) ==
  /\ mediaStore' = M
  /\ Commit(Cur)
  /\ UNCHANGED <<env, config, connectedPhone, defaultWebhookUrl, secondaryWebhookUrl,
                 typeWebhooks, nAdmin, adminResponse, reached3, envWebhookUrl, disk, proc,
                 connectionState, retryCount, reconnectDelays, ingress, autoSaves, saves,
                 alertSink>>

SaveMedia(c, messageId, size) ==
  /\ nEvents < MaxMediaSaves
  /\ nEvents' = nEvents + 1
  /\ mediaStore.calls[c].pc = "idle"
  /\ MediaStep(saveMedia(mediaStore, c, messageId, size))

SaveMediaWritten(c, ok, tick) ==
  /\ mediaStore.calls[c].pc = "write"
  /\ UNCHANGED nEvents
  /\ MediaStep(saveMediaWritten(mediaStore, c, ok, tick))

SaveIndexDone(c) ==
  /\ mediaStore.calls[c].pc = "saveIndex"
  /\ UNCHANGED nEvents
  /\ MediaStep(cleanupIfNeeded(mediaStore, c))

UnlinkDone(c) ==
  /\ mediaStore.calls[c].pc = "unlink"
  /\ UNCHANGED nEvents
  /\ MediaStep(cleanupUnlinked(mediaStore, c))

\* the saveIndex at the end of cleanupIfNeeded is over: saveMedia returns
CleanupSaved(c) ==
  /\ mediaStore.calls[c].pc = "saveIndex2"
  /\ UNCHANGED nEvents
  /\ MediaStep(mediaReturn(mediaStore, c, mediaStore.calls[c].mediaId))

InitMedia ==
  /\ env = Env(FALSE, FALSE, NOURL, FALSE, NOURL)
  /\ connectedPhone = EMPTY
  /\ defaultWebhookUrl = URL_DEFAULT
  /\ typeWebhooks = [t \in {} |-> NOURL]
  /\ InitState

NextMedia ==
  \/ \E c \in MediaCallers, messageId \in MediaMessageIds, size \in MediaSizes :
       SaveMedia(c, messageId, size)
  \/ \E c \in MediaCallers, ok \in BOOLEAN, tick \in 0..1 : SaveMediaWritten(c, ok, tick)
  \/ \E c \in MediaCallers : SaveIndexDone(c)
  \/ \E c \in MediaCallers : UnlinkDone(c)
  \/ \E c \in MediaCallers : CleanupSaved(c)

SpecMedia == InitMedia /\ [][NextMedia]_vars

\* ------------------------------------------------------------------------
\* saveConfig step by step, for the callers that may overlap: it awaits
\* fs.mkdir, then builds configToSave and awaits fs.writeFile. The writes of
\* overlapping calls reach the file in any order (the file holds what was
\* written last; contents mixed from two writes are left out).

\* a caller calls saveConfig(): up to `await fs.mkdir(...)`
saveConfigBegin(sv, o) == [sv EXCEPT ![o] = [pc |-> "mkdir"]]

\* the mkdir of a saveConfig call is over: configToSave is built from the
\* configuration as it is now and fs.writeFile is called
SaveConfigMkdirDone(o) ==
  /\ saves[o].pc = "mkdir"
  /\ saves' = [saves EXCEPT ![o] = [pc |-> "write", data |-> configToSave]]
  /\ disk' = writeFile(disk, "contacts.json")
  /\ Commit(Cur)
  /\ UNCHANGED <<env, config, connectedPhone, defaultWebhookUrl, secondaryWebhookUrl,
                 typeWebhooks, nAdmin, adminResponse, reached3, nEvents, envWebhookUrl, proc,
                 connectionState, retryCount, reconnectDelays, ingress, autoSaves,
                 alertSink, mediaStore>>

\* the writeFile of a saveConfig call has written its data and is over; the
\* caller goes on: the ingress endpoint answers 200, the admin handler answers
\* with the contact
SaveConfigWritten(o) ==
  /\ saves[o].pc = "write"
  /\ saves' = [saves EXCEPT ![o] = NoSave]
  /\ disk' = [writeFileDone(disk, "contacts.json") EXCEPT
                !["contacts.json"].data = saves[o].data]
  /\ IF o[1] = "filter"
     THEN /\ Commit([Cur EXCEPT !.h[o[2]] = IdleSlot])
          /\ ingress' = [ingress EXCEPT ![o[2]] = "none"]
          /\ UNCHANGED adminResponse
     ELSE /\ Commit(Cur)
          /\ adminResponse' = [op |-> "POST /api/contacts/add", status |-> 200]
          /\ UNCHANGED ingress
  /\ UNCHANGED <<env, config, connectedPhone, defaultWebhookUrl, secondaryWebhookUrl,
                 typeWebhooks, nAdmin, reached3, nEvents, envWebhookUrl, proc,
                 connectionState, retryCount, reconnectDelays, autoSaves,
                 alertSink, mediaStore>>

\* ------------------------------------------------------------------------
\* SpecAutoSave: requests of the ingress endpoint in parallel, and events of
\* the adapter between them, when stats.json was loaded with counters just
\* below 100: the endpoint saves the configuration when it finds the number of
\* events at a multiple of 100.
MaxAutoSaveEvents == 3
AUTO_SAVE_EVERY == 100
AutoSaveMessages == { m \in Messages : m.id \in {"m1", "m3"} }

\* getStats().totals.allEvents: the sum of the totals of every event kind
RECURSIVE SumTotals(_, _)
SumTotals(events, kinds) ==
  IF kinds = {} THEN 0
  ELSE LET e == CHOOSE e \in kinds : TRUE
       IN events[e].total + SumTotals(events, kinds \ {e})

AllEvents(st) == SumTotals(st.events, DOMAIN st.events)

\* POST /filter/:event after `await routeEvent(...)`, once routeEvent has
\* returned: saveConfig is called when allEvents is a multiple of 100, and the
\* request stays open until the save is over
autoSave(S, p) ==
  IF S.h[p].pc = "idle" /\ AllEvents(S.stats) % AUTO_SAVE_EVERY = 0
  THEN [S EXCEPT !.h[p] = [IdleSlot EXCEPT !.pc = "save"]]
  ELSE S

\* a step of a request of the ingress endpoint: what the handler does, then the
\* check of the endpoint if the handler is over
FilterStep(p, S) ==
  LET S1 == autoSave(S, p)
      saving == S1.h[p].pc = "save"
  IN /\ Commit(S1)
     /\ autoSaves' = IF saving THEN autoSaves + 1 ELSE autoSaves
     /\ saves' = IF saving THEN saveConfigBegin(saves, <<"filter", p>>) ELSE saves
     /\ ingress' = [ingress EXCEPT ![p] = IF S1.h[p].pc = "idle" THEN "none" ELSE "endpoint"]
     /\ UNCHANGED <<env, config, connectedPhone, defaultWebhookUrl, secondaryWebhookUrl,
                    typeWebhooks, nAdmin, adminResponse, reached3, envWebhookUrl, disk, proc,
                    connectionState, retryCount, reconnectDelays, alertSink, mediaStore>>

\* POST /filter/messages-upsert
FilterUpsert(p, data) ==
  /\ FreeSlot(p)
  /\ nEvents' = nEvents + 1
  /\ FilterStep(p, handleUpsertBegin(Cur, p, data))

\* the handler of a request resumes after `await webhookService.forward(...)`
FilterForwardReturns(p) ==
  /\ ingress[p] = "endpoint"
  /\ h[p].pc \in {"fwd_ok", "fwd_err"}
  /\ UNCHANGED nEvents
  /\ FilterStep(p, handleUpsertAfterForward(Cur, p))

\* stats.json of an earlier run, as load() restores it: n messages, all filtered
StatsLoaded(n) ==
  [events |-> [e \in {"MESSAGES_UPSERT", "MESSAGES_UPDATE", "SEND_MESSAGE"} |->
                 IF e = "MESSAGES_UPSERT"
                 THEN [total |-> n, filtered |-> n, forwarded |-> 0, failed |-> 0]
                 ELSE createEmptyEventStats],
   legacy |-> [totalMessages |-> 2 * n, filteredMessages |-> n, allowedMessages |-> 0]]

InitAutoSave ==
  /\ env = Env(FALSE, FALSE, NOURL, FALSE, NOURL)
  /\ connectedPhone = EMPTY
  /\ defaultWebhookUrl = URL_DEFAULT
  /\ typeWebhooks = [t \in {} |-> NOURL]
  /\ config = [allowedNumbers |-> InitAllowedNumbers, allowedGroups |-> InitAllowedGroups]
  /\ secondaryWebhookUrl = env.SECONDARY_WEBHOOK_URL
  /\ lastSuccess = NULL
  /\ lastError = NULL
  /\ consecutiveFailures = 0
  /\ typeStats = [t \in {} |-> [successes |-> 0, failures |-> 0]]
  /\ secondaryStats = [lastSuccess |-> NULL, lastError |-> NULL, consecutiveFailures |-> 0]
  /\ stats = StatsLoaded(AUTO_SAVE_EVERY - 2)
  /\ recentEvents = <<>>
  /\ messageStore = [k \in {} |-> <<>>]
  /\ isDirty = FALSE
  /\ storeClock = 1
  /\ h = [p \in Handlers |-> IdleSlot]
  /\ secPending = 0
  /\ alertLog = <<>>
  /\ lastReturn = NoReturn
  /\ reached3 = 0
  /\ nEvents = 0
  /\ nAdmin = 0
  /\ nLogged = 0
  /\ adminResponse = [op |-> NULL, status |-> 0]
  /\ InitSystem

NextAutoSave ==
  \/ \E p \in Handlers, data \in AutoSaveMessages :
       nEvents < MaxAutoSaveEvents /\ FilterUpsert(p, data)
  \/ \E p \in Handlers : FilterForwardReturns(p)
  \/ \E p \in Handlers, data \in AutoSaveMessages :
       nEvents < MaxAutoSaveEvents /\ RouteUpsert(p, data)
  \/ \E p \in Handlers : ingress[p] = "none" /\ ForwardReturns(p)
  \/ \E p \in Handlers : PrimaryResponds(p, "200")
  \/ \E p \in Handlers : SaveConfigMkdirDone(<<"filter", p>>)
  \/ \E p \in Handlers : SaveConfigWritten(<<"filter", p>>)

SpecAutoSave == InitAutoSave /\ [][NextAutoSave]_vars

\* ------------------------------------------------------------------------
\* SpecSave: admin requests that add contacts while the save of another
\* request is under way.
MaxSaveRequests == 2
SaveRequests ==
  { [phone |-> Phone("5"), name |-> "New", type |-> "VIP", lid |-> EMPTY],
    [phone |-> Phone("6"), name |-> "New", type |-> "VIP", lid |-> LidLong],
    [phone |-> Phone("3"), name |-> "New", type |-> "VIP", lid |-> EMPTY],
    [phone |-> <<"1", "2">>, name |-> "New", type |-> "VIP", lid |-> EMPTY] }

\* POST /api/contacts/add up to the await of its saveConfig(), or to its answer
\* when the request is refused
AddContactBegin(r, req) ==
  /\ nAdmin < MaxSaveRequests
  /\ nAdmin' = nAdmin + 1
  /\ saves[<<"admin", r>>] = NoSave
  /\ LET op == "POST /api/contacts/add"
         newContact == IF req.lid # EMPTY
                       THEN [phone |-> req.phone, name |-> req.name, type |-> req.type,
                             lid |-> req.lid]
                       ELSE [phone |-> req.phone, name |-> req.name, type |-> req.type]
     IN IF \/ req.phone = EMPTY \/ req.name = "" \/ req.type = ""
           \/ ~isValidPhone(req.phone)
           \/ ~isValidName(req.name)
           \/ req.type \notin ValidContactTypes
           \/ (req.lid # EMPTY /\ ~AllDigits(req.lid, 10, 25))
        THEN adminResponse' = [op |-> op, status |-> 400] /\ UNCHANGED <<config, saves>>
        ELSE IF \E i \in 1..Len(config.allowedNumbers) : config.allowedNumbers[i].phone = req.phone
        THEN adminResponse' = [op |-> op, status |-> 409] /\ UNCHANGED <<config, saves>>
        ELSE /\ config' = [config EXCEPT !.allowedNumbers = Append(@, newContact)]
             /\ saves' = saveConfigBegin(saves, <<"admin", r>>)
             /\ UNCHANGED adminResponse
  /\ Commit(Cur)
  /\ UNCHANGED <<env, connectedPhone, defaultWebhookUrl, secondaryWebhookUrl, typeWebhooks,
                 reached3, nEvents, envWebhookUrl, disk, proc, connectionState, retryCount,
                 reconnectDelays, ingress, autoSaves, alertSink, mediaStore>>

InitSave ==
  /\ env = Env(FALSE, FALSE, NOURL, FALSE, NOURL)
  /\ connectedPhone = EMPTY
  /\ defaultWebhookUrl \in {NOURL, URL_DEFAULT}
  /\ typeWebhooks = [t \in {} |-> NOURL]
  /\ InitState

NextSave ==
  \/ \E r \in AdminRequests, req \in SaveRequests : AddContactBegin(r, req)
  \/ \E r \in AdminRequests : SaveConfigMkdirDone(<<"admin", r>>)
  \/ \E r \in AdminRequests : SaveConfigWritten(<<"admin", r>>)

SpecSave == InitSave /\ [][NextSave]_vars

\* ========================================================================
\* Properties
\* ========================================================================
UpsertStats == stats.events["MESSAGES_UPSERT"]

\* the digits of a string, as the claims speak of "the same phone"
DigitsOf(str) == SelectSeq(str, IsDigit)

\* the source of a payload is a contact that is neither in allowedNumbers nor the
\* self-phone, or a group that is not in allowedGroups
Unauthorized(data) ==
  \/ /\ Includes(data.remoteJid, "@s.whatsapp.net")
     /\ \A i \in 1..Len(config.allowedNumbers) :
          DigitsOf(config.allowedNumbers[i].phone) # DigitsOf(data.remoteJid)
     /\ DigitsOf(data.remoteJid) # connectedPhone
  \/ /\ Includes(data.remoteJid, "@g.us")
     /\ \A i \in 1..Len(config.allowedGroups) :
          DigitsOf(config.allowedGroups[i].groupId) # DigitsOf(data.remoteJid)

\* C1: a MESSAGES_UPSERT event from a source that is not authorized ends within
\* the step that checks it, with no POST issued on any channel (primary,
\* secondary, mention), MESSAGES_UPSERT.filtered incremented by exactly one and
\* the newest recent event being action=filtered with reason
\* not_in_allowed_contacts or not_in_allowed_groups.
C1_UnauthorizedIsFiltered ==
  [][\A data \in Messages :
       (RouteUpsert(1, data) /\ Unauthorized(data)) =>
          /\ h'[1] = IdleSlot
          /\ secPending' = secPending
          /\ stats'.events["MESSAGES_UPSERT"].filtered = UpsertStats.filtered + 1
          /\ stats'.events["MESSAGES_UPSERT"].forwarded = UpsertStats.forwarded
          /\ stats'.events["MESSAGES_UPSERT"].failed = UpsertStats.failed
          /\ recentEvents' # <<>>
          /\ recentEvents'[1].event = "MESSAGES_UPSERT"
          /\ recentEvents'[1].action = "filtered"
          /\ recentEvents'[1].reason =
               IF Includes(data.remoteJid, "@g.us")
               THEN "not_in_allowed_groups" ELSE "not_in_allowed_contacts"]_vars

\* an unauthorized group message that carries a mention keyword was filtered
\* while mention detection, a mention endpoint and a default destination are set
C1_Witness ==
  /\ recentEvents # <<>>
  /\ recentEvents[1].action = "filtered"
  /\ recentEvents[1].reason = "not_in_allowed_groups"
  /\ UpsertStats.filtered = 1
  /\ env.ENABLE_MENTION_DETECTION
  /\ env.MENTION_WEBHOOK_URL # NOURL
  /\ defaultWebhookUrl # NOURL
  /\ h[1].pc = "idle"

\* a forward() call of slot p that resolved a destination is in progress or has
\* just ended (its caller has not resumed yet)
InCall(p) == h[p].pc \in {"post", "backoff", "fwd_ok"} \/ (h[p].pc = "fwd_err" /\ h[p].targetUrl # NOURL)

\* C2 (as claimed): once an attempt of a forward() call was answered with a 4xx
\* status, the call makes no further attempt: no POST of that call is in flight
\* and no backoff is pending while a 4xx answer is among its answers.
C2_FourXXIsTerminal ==
  \A p \in Handlers :
    (\E i \in 1..Len(h[p].answers) : h[p].answers[i] = "400") => h[p].pc \notin {"post", "backoff"}

Transient(o) == o \in {"503", "ECONNREFUSED"}
BackoffSequence == <<1, 2>>

ResolvedDestination(entityType, routes, default) ==
  IF entityType \in DOMAIN routes /\ routes[entityType] # "" THEN routes[entityType] ELSE default

\* C5: the destination of a forward() call is ResolvedDestination of the entity
\* type, the TypeRoute map and the default URL at the time of the call; it does
\* not change during the call and every attempt of the call is POSTed to it.
C5_RoutingIsDeterministic ==
  [][\A p \in Handlers :
       /\ (h[p].pc = "idle" /\ h'[p].pc \in {"post", "fwd_err"}) =>
             h'[p].targetUrl = ResolvedDestination(h'[p].fwdEntityType, typeWebhooks,
                                                   defaultWebhookUrl)
       /\ (h[p].pc # "idle" /\ h'[p].pc # "idle") => h'[p].targetUrl = h[p].targetUrl
       /\ h'[p].urls \subseteq {h'[p].targetUrl}
       /\ (h'[p].pc = "post") => h'[p].urls = {h'[p].targetUrl}]_vars

\* a VIP message is at its 2nd or later attempt, all POSTed to the VIP URL,
\* after the VIP route was removed while the call was in flight
C5_Witness ==
  \E p \in Handlers :
    /\ h[p].pc = "post"
    /\ h[p].attempt >= 2
    /\ h[p].fwdEntityType = "VIP"
    /\ h[p].urls = {URL_VIP}
    /\ defaultWebhookUrl = URL_DEFAULT
    /\ "VIP" \notin DOMAIN typeWebhooks

Health == <<consecutiveFailures, lastError, lastSuccess, typeStats>>

\* C6: a forward() call whose destination resolution yields no URL fails in the
\* step that makes the call: no primary and no secondary POST is issued, nothing
\* is waited for, and consecutiveFailures, lastError, lastSuccess and the
\* per-type counters keep their values, also when the caller resumes.
C6_NoDestinationFailsImmediately ==
  [][\A p \in Handlers :
       /\ (/\ h[p].pc = "idle" /\ h'[p].pc # "idle"
           /\ ResolvedDestination(h'[p].fwdEntityType, typeWebhooks, defaultWebhookUrl) = NOURL)
          => /\ h'[p].pc = "fwd_err"
             /\ h'[p].nPrimary = 0 /\ h'[p].nSecondary = 0 /\ h'[p].urls = {}
             /\ h'[p].waits = <<>>
             /\ secPending' = secPending
             /\ Health' = Health
       /\ (h[p].pc = "fwd_err" /\ h[p].targetUrl = NOURL /\ h'[p].pc = "idle")
          => (Health' = Health /\ secPending' = secPending)]_vars

\* a call found no destination while a secondary URL is configured and an
\* earlier call had failed: the failure count is still the earlier one
C6_Witness ==
  \E p \in Handlers :
    /\ h[p].pc = "fwd_err"
    /\ h[p].targetUrl = NOURL
    /\ secondaryWebhookUrl # NOURL
    /\ consecutiveFailures = 1
    /\ lastError # NULL

TypeSuccesses(ts, t) == IF t \in DOMAIN ts THEN ts[t].successes ELSE 0
TypeFailures(ts, t) == IF t \in DOMAIN ts THEN ts[t].failures ELSE 0
EntityTypes == {"VIP", "TEAM", "GENERAL", "SELF"}

\* C7: the step in which a forward() call succeeds, at attempt k in 1..3, leaves
\* consecutiveFailures = 0, lastSuccess set and lastError cleared, adds exactly
\* one to the success counter of the call's entity type and to no other
\* counter, and the call returns its destination and k.
C7_SuccessUpdatesHealth ==
  [][\A p \in Handlers :
       (h[p].pc = "post" /\ h'[p].pc = "fwd_ok") =>
          /\ consecutiveFailures' = 0
          /\ lastSuccess' # NULL
          /\ lastError' = NULL
          /\ \A t \in EntityTypes :
               /\ TypeSuccesses(typeStats', t) =
                    TypeSuccesses(typeStats, t) + (IF t = h[p].fwdEntityType THEN 1 ELSE 0)
               /\ TypeFailures(typeStats', t) = TypeFailures(typeStats, t)
          /\ h'[p].attempt \in 1..3
          /\ h'[p].attempt = h'[p].nPrimary
          /\ h'[p].targetUrl = h[p].targetUrl
          /\ h'[p].urls = {h[p].targetUrl}]_vars

\* a call of a VIP message succeeded at its 3rd attempt after another call had
\* failed: the failure count is back to 0 and the error is cleared
C7_Witness ==
  \E p \in Handlers :
    /\ h[p].pc = "fwd_ok"
    /\ h[p].attempt = 3
    /\ h[p].fwdEntityType = "VIP"
    /\ TypeSuccesses(typeStats, "VIP") = 1
    /\ \E t \in EntityTypes : TypeFailures(typeStats, t) = 1
    /\ consecutiveFailures = 0
    /\ lastError = NULL
    /\ lastSuccess # NULL

\* C8: the step in which a forward() call ends in failure after its attempts
\* adds exactly one to consecutiveFailures and to the failure counter of the
\* call's entity type, sets lastError to the error of the last attempt and
\* hands that error to the caller; the earlier failed attempts of the call
\* leave consecutiveFailures, lastError and the counters as they are.
C8_FailureUpdatesHealth ==
  [][\A p \in Handlers :
       /\ (h[p].pc = "post" /\ h'[p].pc = "fwd_err") =>
             /\ consecutiveFailures' = consecutiveFailures + 1
             /\ lastError' = h'[p].answers[Len(h'[p].answers)]
             /\ h'[p].error = h'[p].answers[Len(h'[p].answers)]
             /\ \A t \in EntityTypes :
                  /\ TypeFailures(typeStats', t) =
                       TypeFailures(typeStats, t) + (IF t = h[p].fwdEntityType THEN 1 ELSE 0)
                  /\ TypeSuccesses(typeStats', t) = TypeSuccesses(typeStats, t)
       /\ (h[p].pc = "post" /\ h'[p].pc \in {"post", "backoff"} /\ h'[p] # h[p]) =>
             Health' = Health]_vars

\* two calls have failed, the second after 3 attempts ending in a 503: the
\* count is 2, not the number of failed attempts
C8_Witness ==
  \E p \in Handlers :
    /\ h[p].pc = "fwd_err"
    /\ h[p].attempt = 3
    /\ h[p].answers[3] = "503"
    /\ lastError = "503"
    /\ consecutiveFailures = 2

\* C9: with a secondary URL configured every forward() call that resolves a
\* destination issues exactly one secondary POST, in the step that issues the
\* first primary POST, whatever the number of primary attempts; the answer to a
\* secondary POST, whenever it comes, changes neither a call in progress, nor
\* the primary health and counters, nor the handler statistics or alerts.
C9_SecondaryIsFireAndForget ==
  [][/\ \A p \in Handlers :
          (h'[p].pc \in {"post", "backoff", "fwd_ok"}
             \/ (h'[p].pc = "fwd_err" /\ h'[p].targetUrl # NOURL)) =>
             h'[p].nSecondary = (IF secondaryWebhookUrl # NOURL THEN 1 ELSE 0)
     /\ \A p \in Handlers :
          (h[p].pc = "idle" /\ h'[p].pc = "post") =>
             (h'[p].nPrimary = 1
              /\ secPending' = secPending + (IF secondaryWebhookUrl # NOURL THEN 1 ELSE 0))
     /\ (secPending' < secPending) =>
          /\ secPending' = secPending - 1
          /\ h' = h
          /\ Health' = Health
          /\ stats' = stats /\ recentEvents' = recentEvents /\ alertLog' = alertLog
          /\ lastReturn' = lastReturn]_vars

\* a call succeeded at its 3rd primary attempt with its one secondary POST
\* answered by a failure meanwhile
C9_Witness ==
  \E p \in Handlers :
    /\ h[p].pc = "fwd_ok"
    /\ h[p].attempt = 3
    /\ h[p].nSecondary = 1
    /\ secPending = 0
    /\ secondaryStats.consecutiveFailures = 1
    /\ consecutiveFailures = 0

\* C10 (as claimed): whenever no handler is in flight, the number of warning
\* alerts emitted equals the number of times consecutiveFailures reached 3.
C10_AlertAtThreshold ==
  (\A p \in Handlers : h[p].pc = "idle") => Len(alertLog) = reached3

\* the message of a payload, if allowed, has no destination: no type-specific
\* route for its entity type and no default URL
AllowedContactWithoutDestination(data) ==
  /\ Includes(data.remoteJid, "@s.whatsapp.net")
  /\ \E i \in 1..Len(config.allowedNumbers) :
        /\ DigitsOf(config.allowedNumbers[i].phone) = DigitsOf(data.remoteJid)
        /\ ResolvedDestination(config.allowedNumbers[i].type, typeWebhooks,
                               defaultWebhookUrl) = NOURL

\* C4 (as claimed): an allowed contact message without any destination ends in
\* the step that handles it with no POST issued, MESSAGES_UPSERT.forwarded (and
\* not failed) incremented, and the newest recent event being action=forwarded
\* with reason=no_destination_for_type.
C4_NoSilentSuccess ==
  [][\A data \in Messages :
       (RouteUpsert(1, data) /\ AllowedContactWithoutDestination(data)) =>
          /\ h'[1] = IdleSlot
          /\ secPending' = secPending
          /\ stats'.events["MESSAGES_UPSERT"].forwarded = UpsertStats.forwarded + 1
          /\ stats'.events["MESSAGES_UPSERT"].failed = UpsertStats.failed
          /\ recentEvents' # <<>>
          /\ recentEvents'[1].action = "forwarded"
          /\ recentEvents'[1].reason = "no_destination_for_type"]_vars

\* what getHealth() reports next to url = defaultWebhookUrl
DefaultHealth == <<consecutiveFailures, lastSuccess, lastError>>

\* C11 (as claimed): the end of a forward() call, in success or in failure,
\* against a destination other than the default URL leaves consecutiveFailures,
\* lastSuccess and lastError of the default destination as they were.
C11_HealthPerDestination ==
  [][\A p \in Handlers :
       (/\ h[p].pc = "post" /\ h'[p].pc \in {"fwd_ok", "fwd_err"}
        /\ defaultWebhookUrl # NOURL
        /\ h[p].targetUrl # defaultWebhookUrl)
       => DefaultHealth' = DefaultHealth]_vars

\* C12: every handler invocation that ended, whatever the event kind and
\* payload, ended with routeEvent resolving: the ingress endpoint answered 200;
\* an exception raised inside the handler became success = false with the
\* error message, and every returned result (filtered, forwarded, failed,
\* logged, skipped) became success = true.
C12_HandlersNeverLeak ==
  lastReturn.event # NULL =>
    /\ lastReturn.status = 200
    /\ lastReturn.action = "threw" => (~lastReturn.success /\ lastReturn.reason # NULL)
    /\ lastReturn.action # "threw" => lastReturn.success

\* handleUpsert threw (the reply check of the mention detector raised a
\* TypeError): the result is success = false and the endpoint answered 200
C12_Witness ==
  /\ lastReturn.event = "MESSAGES_UPSERT"
  /\ lastReturn.action = "threw"
  /\ ~lastReturn.success
  /\ lastReturn.status = 200
  /\ h[1].pc = "idle"

\* C20: after N logEvent calls on the initially empty buffer, recentEvents
\* holds min(N, RECENT_EVENTS_LIMIT) records, and they are the records of the
\* last calls, newest first: position i holds the record of call N - i + 1.
C20_RingBuffer ==
  /\ Len(recentEvents) = (IF nLogged < RECENT_EVENTS_LIMIT THEN nLogged ELSE RECENT_EVENTS_LIMIT)
  /\ \A i \in 1..Len(recentEvents) : recentEvents[i].id = nLogged - i + 1

\* more records were logged than the buffer holds: the oldest ones are gone
C20_Witness ==
  /\ nLogged > RECENT_EVENTS_LIMIT
  /\ Len(recentEvents) = RECENT_EVENTS_LIMIT
  /\ recentEvents[1].id = nLogged
  /\ recentEvents[RECENT_EVENTS_LIMIT].id = nLogged - RECENT_EVENTS_LIMIT + 1

\* the source a routed MESSAGES_UPSERT was checked under: the handler keeps it
\* while it forwards, and the event log has it once the handler has returned
RoutedSource ==
  IF h[1].pc = "idle" THEN recentEvents[1].source ELSE h[1].sourceId

\* the linked identifier of an @lid address
LidOf(remoteJid) == ReplaceFirst(remoteJid, "@lid")

\* C13: a message from an @lid address that carries no phone to resolve it to,
\* and whose linked identifier equals the stored lid of a contact, is treated
\* as coming from that contact: it is allowed under that contact's type.
C13_LidMatchesStoredLid ==
  [][\A data \in AuthMessages :
       \A i \in 1..Len(config.allowedNumbers) :
         ( /\ Includes(data.remoteJid, "@lid")
           /\ data.senderPn = EMPTY
           /\ "lid" \in DOMAIN config.allowedNumbers[i]
           /\ config.allowedNumbers[i].lid = LidOf(data.remoteJid)
           /\ RouteUpsert(1, data) ) =>
             /\ h'[1].pc = "post"
             /\ h'[1].entityType = config.allowedNumbers[i].type]_vars

\* C14: a message from an @lid address that carries a senderPn with a valid
\* phone (10 to 15 digits) is authorized under that phone, not under the
\* linked identifier.
C14_SenderPnReplacesLid ==
  [][\A data \in AuthMessages :
       ( /\ Includes(data.remoteJid, "@lid")
         /\ MatchesPhoneDigits(DigitsOf(data.senderPn))
         /\ RouteUpsert(1, data) ) =>
           RoutedSource' = DigitsOf(data.senderPn)]_vars

\* the phone is in no stored contact, in any format
NotInContacts(phone) ==
  \A i \in 1..Len(config.allowedNumbers) : DigitsOf(config.allowedNumbers[i].phone) # phone

\* C15: once the self-phone is known, a message from the contact address of
\* the self-phone is allowed with entity type SELF although no stored contact
\* has that phone.
C15_SelfPhoneIsAllowed ==
  [][\A data \in AuthMessages :
       ( /\ connectedPhone # EMPTY
         /\ Includes(data.remoteJid, "@s.whatsapp.net")
         /\ DigitsOf(data.remoteJid) = connectedPhone
         /\ NotInContacts(connectedPhone)
         /\ RouteUpsert(1, data) ) =>
           /\ h'[1].pc = "post"
           /\ h'[1].sourceId = connectedPhone
           /\ h'[1].entityType = "SELF"
           /\ stats'.events["MESSAGES_UPSERT"].filtered = UpsertStats.filtered]_vars

\* the message of the self-phone is being forwarded as SELF while no contact
\* has that phone
C15_Witness ==
  /\ connectedPhone = SelfPhone
  /\ NotInContacts(SelfPhone)
  /\ h[1].pc = "post"
  /\ h[1].sourceId = SelfPhone
  /\ h[1].entityType = "SELF"

\* a and b are the two ways of writing one group: digits, with or without a
\* trailing @g.us
IsGroupForm(a) ==
  /\ a # EMPTY
  /\ \A i \in 1..(Len(a) - 1) : a[i] \in Digits
  /\ a[Len(a)] \in Digits \cup {"@g.us"}

SameGroup(a, b) == IsGroupForm(a) /\ IsGroupForm(b) /\ DigitsOf(a) = DigitsOf(b)

\* C16: a group stored as X or as X@g.us authorizes a message from X@g.us
\* under the stored group's type, and a request to add either form of a
\* stored group is answered 409 and leaves the configuration as it was.
C16_GroupIdForms ==
  [][/\ \A data \in AuthMessages :
          \A i \in 1..Len(config.allowedGroups) :
            ( /\ Includes(data.remoteJid, "@g.us")
              /\ SameGroup(config.allowedGroups[i].groupId, data.remoteJid)
              /\ RouteUpsert(1, data) ) =>
                /\ h'[1].pc = "post"
                /\ h'[1].sourceType = "group"
                /\ h'[1].entityType = config.allowedGroups[i].type
     /\ \A req \in GroupRequests :
          ( /\ \E i \in 1..Len(config.allowedGroups) :
                 SameGroup(config.allowedGroups[i].groupId, req.groupId)
            /\ AddGroup(req) ) =>
              /\ config' = config
              /\ adminResponse'.status = 409]_vars

\* the group is stored with its suffix, a request to add it again was answered
\* 409 and a message of the group is being forwarded
C16_Witness ==
  /\ Len(config.allowedGroups) = 1
  /\ config.allowedGroups[1].groupId = GroupJid(GroupId("1"))
  /\ adminResponse = [op |-> "POST /api/groups/add", status |-> 409]
  /\ h[1].pc = "post"
  /\ h[1].sourceType = "group"
  /\ h[1].sourceId = GroupId("1")

\* the routed message was allowed and goes on to be forwarded, or was filtered
RoutedAllowed == h[1].pc = "post"
RoutedFiltered == h[1] = IdleSlot /\ lastReturn.action = "filtered"

\* C17: normalizePhone applied twice gives what it gives applied once, on
\* every stored phone and every incoming address made of digits, spaces,
\* dashes, parentheses and plus signs; and a message from a contact address is
\* allowed exactly when the digits of the address are the digits of a stored
\* contact phone or of the self-phone, however either side is formatted.
C17_PhoneFormatIndependent ==
  [][/\ \A i \in 1..Len(config'.allowedNumbers) :
          LET s == config'.allowedNumbers[i].phone
          IN normalizePhone(normalizePhone(s)) = normalizePhone(s)
     /\ \A data \in AuthMessages :
          (Includes(data.remoteJid, "@s.whatsapp.net") /\ data.senderPn = EMPTY
             /\ RouteUpsert(1, data)) =>
            LET s == ReplaceFirst(data.remoteJid, "@s.whatsapp.net")
                known == \/ \E i \in 1..Len(config.allowedNumbers) :
                              DigitsOf(config.allowedNumbers[i].phone) = DigitsOf(s)
                         \/ (connectedPhone # EMPTY /\ DigitsOf(s) = connectedPhone)
            IN /\ normalizePhone(normalizePhone(s)) = normalizePhone(s)
               /\ known => RoutedAllowed'
               /\ ~known => RoutedFiltered']_vars

\* a contact stored as (972) 5... is matched by a message whose address is
\* written +972-5...
C17_Witness ==
  /\ config.allowedNumbers[2].phone = PhoneParens("4")
  /\ h[1].pc = "post"
  /\ h[1].sourceId = Phone("4")
  /\ h[1].entityType = "TEAM"

\* the group of the handler's source is a stored group
InAllowedGroups(sourceId) ==
  \E i \in 1..Len(config.allowedGroups) :
    DigitsOf(config.allowedGroups[i].groupId) = DigitsOf(sourceId)

\* C18: a routed message reaches the mention hook (a mention is being forwarded,
\* or the detector raised) only if it is a message of an allowed group, mention
\* detection is enabled and the self-phone is known; and under the
\* mentions-only policy the handler returns mention_forwarded in the step in
\* which the mention forward ends, whatever its outcome, having issued no POST
\* to the default or a type-specific destination and leaving their health and
\* statistics as they were.
C18_MentionHook ==
  [][/\ \A data \in MentionMessages :
          ( /\ RouteUpsert(1, data)
            /\ \/ h'[1].pc = "mention"
               \/ (h'[1].pc = "idle" /\ lastReturn'.action = "threw") ) =>
              /\ env.ENABLE_MENTION_DETECTION
              /\ connectedPhone # EMPTY
              /\ Includes(data.remoteJid, "@g.us")
              /\ InAllowedGroups(data.remoteJid)
     /\ \A o \in {"200", "503"} :
          (env.MENTION_ONLY_OPENCLAW /\ MentionResponds(1, o)) =>
              /\ h[1].nPrimary = 0
              /\ h'[1] = IdleSlot
              /\ lastReturn'.action = "mention_forwarded"
              /\ lastReturn'.success
              /\ stats'.events["MESSAGES_UPSERT"].forwarded = UpsertStats.forwarded + 1
              /\ typeStats' = typeStats
              /\ DefaultHealth' = DefaultHealth]_vars

\* under the mentions-only policy a mention was POSTed to the mention
\* destination, the POST failed, and the handler returned mention_forwarded
C18_Witness ==
  /\ env.MENTION_ONLY_OPENCLAW
  /\ env.MENTION_WEBHOOK_URL # NOURL
  /\ "MENTIONS" \in DOMAIN stats.events
  /\ stats.events["MENTIONS"].failed = 1
  /\ recentEvents # <<>>
  /\ recentEvents[1].event = "MENTION_DETECTED"
  /\ recentEvents[1].action = "detection_only"
  /\ lastReturn.action = "mention_forwarded"
  /\ h[1] = IdleSlot

\* the payload carries neither a tag of the self-phone nor a mention keyword
NoTagNoKeyword(data) ==
  /\ \A i \in 1..Len(data.mentionedJid) : DigitsOf(data.mentionedJid[i]) # connectedPhone
  /\ \A i \in 1..Len(data.body) : \A k \in 1..Len(MentionKeywords) :
       ToLowerCase(data.body[i]) # MentionKeywords[k]

\* C19: with mention detection on and the self-phone known, a message of an
\* allowed group that quotes another message (stanzaId present) and has neither
\* tag nor keyword is either a reply mention (method reply, forwarded to the
\* mention destination) or no mention, and in the latter case the handler goes on
\* to forward it to its destination.
C19_ReplyMentionOrForward ==
  [][\A data \in MentionMessages :
       ( /\ env.ENABLE_MENTION_DETECTION
         /\ connectedPhone # EMPTY
         /\ Includes(data.remoteJid, "@g.us")
         /\ InAllowedGroups(data.remoteJid)
         /\ data.stanzaId # NULL
         /\ NoTagNoKeyword(data)
         /\ RouteUpsert(1, data) ) =>
           \/ h'[1].pc = "mention" /\ h'[1].mentionMethod = "reply"
           \/ h'[1].pc = "post"]_vars

\* the stored messages of a store, each named by the instant it was stored at
StoredAts(ms) == { ms[e[1]][e[2]].storedAt : e \in StoreEntries(ms) }
RecordAt(ms, at) ==
  LET e == CHOOSE e \in StoreEntries(ms) : ms[e[1]][e[2]].storedAt = at
  IN ms[e[1]][e[2]]

\* how many messages the list of the phone holds
CountOf(ms, phone) == IF phone \in DOMAIN ms THEN Len(ms[phone]) ELSE 0

\* the messages a store() on this phone drops from the phone's own list: those
\* beyond maxPerSource once the new message is in front
Truncated(ms, phone) ==
  IF phone \in DOMAIN ms
  THEN { ms[phone][i].storedAt : i \in { j \in 1..Len(ms[phone]) : j + 1 > MAX_MESSAGES_PER_PHONE } }
  ELSE {}

\* C21 as stated: once more than maxTotal messages have been inserted, the
\* total number of stored messages equals maxTotal.
C21_TotalEqualsMaxTotal ==
  nEvents > MAX_TOTAL_MESSAGES => TotalMessages(messageStore) = MAX_TOTAL_MESSAGES

\* C21 (amended): after every store() the total is at most maxTotal; it equals
\* maxTotal after a store() that found more than maxTotal messages once the
\* source's list was truncated to maxPerSource; and every message that store()
\* removed by the global eviction has a timestamp no later than that of every
\* message that remains.
C21_StoreIsBounded ==
  [][\A phone \in StorePhones : \A ts \in StoreStamps :
       StoreMessage(phone, ts) =>
         LET before == messageStore
             after == messageStore'
             entered == TotalMessages(before) + 1 - Cardinality(Truncated(before, phone))
             evicted == ((StoredAts(before) \cup {storeClock}) \ Truncated(before, phone))
                          \ StoredAts(after)
             StampOf(at) == IF at = storeClock THEN ts ELSE RecordAt(before, at).timestamp
         IN /\ TotalMessages(after) <= MAX_TOTAL_MESSAGES
            /\ entered > MAX_TOTAL_MESSAGES => TotalMessages(after) = MAX_TOTAL_MESSAGES
            /\ entered <= MAX_TOTAL_MESSAGES => evicted = {}
            /\ \A k \in DOMAIN after : after[k] # <<>>
            /\ \A gone \in evicted : \A kept \in StoredAts(after) :
                 StampOf(gone) <= RecordAt(after, kept).timestamp]_vars

\* more than maxTotal messages were inserted, the store is full, and the first
\* message inserted is still there although messages inserted after it were
\* evicted: they carried older timestamps
C21_Witness ==
  /\ nEvents = MAX_TOTAL_MESSAGES + 2
  /\ nAdmin = 0
  /\ TotalMessages(messageStore) = MAX_TOTAL_MESSAGES
  /\ Cardinality(DOMAIN messageStore) > 1
  /\ 1 \in StoredAts(messageStore)
  /\ RecordAt(messageStore, 1).timestamp = 2
  /\ 2 \notin StoredAts(messageStore)

\* the process is over, by process.exit or by a crash
ProcessOver == proc.status \in {"exited", "killed"}

\* C22: when the process is over, whatever the point it stopped at, each of
\* the three files holds a complete content, never a part of one.
C22_FilesAreWhole ==
  ProcessOver => \A f \in Files : disk[f].state # "partial"

\* C23: the process exits only after the listener of the server has flushed the
\* config, the stats and the message store, in this order.
C23_ExitAfterFlushes ==
  proc.status = "exited" => proc.server = "done"

\* the alerts sent in this step
AlertsSent == SubSeq(alertLog', Len(alertLog) + 1, Len(alertLog'))

\* the level of the alert of each canonical state
AlertLevelOf(status) ==
  CASE status = "connected" -> "info"
    [] status = "disconnected" -> "critical"
    [] status = "connecting" -> "warning"
    [] status = "logged_out" -> "critical"

\* C24: a CONNECTION_UPDATE or LOGOUT_INSTANCE event that changes the
\* connection state to connected, disconnected, connecting or logged out sends
\* exactly one alert, of the level of the new state; one that leaves the state
\* as it was sends none.
C24_OneAlertPerTransition ==
  [][( \/ \E state \in PayloadStates : ConnectionUpdate(1, state)
       \/ LogoutInstance(1) ) =>
       /\ ( /\ connectionState'.status # connectionState.status
            /\ connectionState'.status \in {"connected", "disconnected", "connecting",
                                            "logged_out"} ) =>
              /\ Len(AlertsSent) = 1
              /\ AlertsSent[1].level = AlertLevelOf(connectionState'.status)
       /\ connectionState'.status = connectionState.status => AlertsSent = <<>>]_vars

\* C25: whenever the connection status is connected, no QR code is available.
C25_NoQrWhenConnected ==
  connectionState.status = "connected" => ~connectionState.qrAvailable

\* C26: no two contacts of allowedNumbers have the same normalized phone.
C26_PhonesUnique ==
  \A i, j \in 1..Len(config.allowedNumbers) :
    normalizePhone(config.allowedNumbers[i].phone)
      = normalizePhone(config.allowedNumbers[j].phone) => i = j

\* the default destination comes from the environment
EnvLocked == envWebhookUrl # NOURL

\* C27: when the default destination URL comes from the environment, it is the
\* effective default of the running process whatever webhookUrl the file
\* holds, a request to set the default URL is answered 403 and changes nothing
\* of the configuration, of the services or of the files, and no write of
\* contacts.json has a webhookUrl field.
C27_EnvUrlWins ==
  [][EnvLocked =>
       /\ Running' => defaultWebhookUrl' = envWebhookUrl
       /\ (\E url \in {NOURL, URL_DEFAULT, URL_VIP} : SetDefaultWebhook(url)) =>
            /\ adminResponse'.status = 403
            /\ UNCHANGED <<env, config, connectedPhone, defaultWebhookUrl,
                           secondaryWebhookUrl, typeWebhooks, envWebhookUrl, disk, proc,
                           stats, messageStore, isDirty, recentEvents, alertLog>>
       /\ disk'["contacts.json"] # disk["contacts.json"] =>
            /\ disk'["contacts.json"].state # "absent"
            /\ "webhookUrl" \notin DOMAIN disk'["contacts.json"].data]_vars

\* the URL comes from the environment, the request to set the URL was answered
\* 403, and the shutdown wrote contacts.json without the field
C27_Witness ==
  /\ EnvLocked
  /\ defaultWebhookUrl = URL_ENV
  /\ adminResponse = [op |-> "POST /api/webhook", status |-> 403]
  /\ proc.server \in {"stats", "store", "done"}
  /\ disk["contacts.json"].state = "complete"
  /\ disk["contacts.json"].data.allowedNumbers = InitAllowedNumbers
  /\ "webhookUrl" \notin DOMAIN disk["contacts.json"].data

\* C28: a close that is not a logout schedules the k-th consecutive reconnect
\* (k = 1..5) with the delay 1000 * 2^(k-1) ms (1, 2, 4, 8, 16 s), never more
\* than 30 s; after five it schedules none; an open resets the count to 0.
C28_BackoffFromOneSecond ==
  [][/\ ConnectionClose(FALSE) =>
          IF retryCount < ADAPTER_MAX_RETRIES
          THEN /\ retryCount' = retryCount + 1
               /\ Len(reconnectDelays') = Len(reconnectDelays) + 1
               /\ reconnectDelays'[Len(reconnectDelays')] = 1000 * Pow2(retryCount' - 1)
               /\ reconnectDelays'[Len(reconnectDelays')] <= RECONNECT_DELAY_CAP
          ELSE UNCHANGED <<retryCount, reconnectDelays,
                 ingress, autoSaves, saves, alertSink, mediaStore>> /\ "reconnect" \notin proc'.timers
     /\ ConnectionOpen => retryCount' = 0]_vars

\* the counters of an event kind, zero before its first event
EventStats(event) ==
  IF event \in DOMAIN stats.events THEN stats.events[event] ELSE createEmptyEventStats

\* the destination health of the primary and of the secondary
AllHealth == <<lastSuccess, lastError, consecutiveFailures, typeStats, secondaryStats>>

\* C29: for a SEND_MESSAGE event the recipient is checked against the lists; a
\* recipient that is not allowed has the message neither stored nor forwarded
\* and SEND_MESSAGE.filtered incremented; an allowed recipient has the message
\* stored as sent by the account itself and, whenever a destination is
\* configured for the recipient (the URL of its type, or else the default
\* URL), posted.
C29_OutgoingStoredAndForwarded ==
  [][\A data \in OutMessages :
       RouteSend(1, data) =>
         LET ca == checkAllowed(data.remoteJid, data.senderPn)
             key == SelectSeq(ca.sourceId, IsDigit)
         IN IF ~ca.isAllowed
            THEN /\ messageStore' = messageStore
                 /\ h'[1] = IdleSlot
                 /\ secPending' = secPending
                 /\ stats'.events["SEND_MESSAGE"].filtered = EventStats("SEND_MESSAGE").filtered + 1
            ELSE /\ key \in DOMAIN messageStore'
                 /\ messageStore'[key][1].id = data.id
                 /\ messageStore'[key][1].fromMe
                 /\ stats'.events["SEND_MESSAGE"].filtered = EventStats("SEND_MESSAGE").filtered
                 /\ getWebhookForType(ca.entityType) # NOURL =>
                      h'[1].pc = "post" /\ h'[1].nPrimary = 1]_vars

\* what holds of every routed SEND_MESSAGE: the recipient is checked, the
\* message of an allowed recipient is stored as sent by the account itself,
\* and it is posted whenever the default URL is set
SendWithDefaultDestination ==
  [][\A data \in OutMessages :
       RouteSend(1, data) =>
         LET ca == checkAllowed(data.remoteJid, data.senderPn)
             key == SelectSeq(ca.sourceId, IsDigit)
         IN IF ~ca.isAllowed
            THEN /\ messageStore' = messageStore
                 /\ h'[1] = IdleSlot
                 /\ secPending' = secPending
                 /\ stats'.events["SEND_MESSAGE"].filtered = EventStats("SEND_MESSAGE").filtered + 1
            ELSE /\ key \in DOMAIN messageStore'
                 /\ messageStore'[key][1].id = data.id
                 /\ messageStore'[key][1].fromMe
                 /\ stats'.events["SEND_MESSAGE"].filtered = EventStats("SEND_MESSAGE").filtered
                 /\ defaultWebhookUrl # NOURL => h'[1].pc = "post" /\ h'[1].nPrimary = 1]_vars

\* C30: a MESSAGES_UPDATE event causes a POST only when ENABLE_MESSAGE_UPDATES
\* is set and is otherwise only counted and logged; a MESSAGES_DELETE, a
\* MESSAGES_SET or an event of an unknown kind causes no POST, leaves the
\* destination health, the message store and every other counter as they
\* were, adds one to its own total and is logged.
C30_UpdatesAndOthers ==
  [][/\ \A data \in UpdateMessages :
          (~env.ENABLE_MESSAGE_UPDATES /\ RouteUpdate(1, data)) =>
             /\ h'[1] = IdleSlot
             /\ secPending' = secPending
             /\ AllHealth' = AllHealth
             /\ stats'.events["MESSAGES_UPDATE"] =
                  [EventStats("MESSAGES_UPDATE") EXCEPT !.total = @ + 1]
             /\ recentEvents'[1].event = "MESSAGES_UPDATE"
             /\ recentEvents'[1].action = "logged"
     /\ \A event \in {"MESSAGES_DELETE", "MESSAGES_SET", "NEW_KIND"} :
          RouteOther(1, event) =>
             /\ h'[1] = IdleSlot
             /\ secPending' = secPending
             /\ AllHealth' = AllHealth
             /\ messageStore' = messageStore
             /\ stats'.events[event] = [EventStats(event) EXCEPT !.total = @ + 1]
             /\ \A e \in DOMAIN stats'.events \ {event} :
                  e \in DOMAIN stats.events /\ stats'.events[e] = stats.events[e]
             /\ stats'.legacy = stats.legacy
             /\ recentEvents'[1].event = event
             /\ recentEvents'[1].action = "logged"]_vars

\* with a default destination configured and ENABLE_MESSAGE_UPDATES not set, a
\* MESSAGES_UPDATE and then an event of an unknown kind were routed: both are
\* logged, nothing was posted and nothing is known about the destination
C30_Witness ==
  /\ defaultWebhookUrl = URL_DEFAULT
  /\ env.SECONDARY_WEBHOOK_URL # NOURL
  /\ ~env.ENABLE_MESSAGE_UPDATES
  /\ nEvents = 2
  /\ Len(recentEvents) = 2
  /\ recentEvents[1].event = "NEW_KIND"
  /\ recentEvents[1].action = "logged"
  /\ recentEvents[2].event = "MESSAGES_UPDATE"
  /\ recentEvents[2].action = "logged"
  /\ EventStats("NEW_KIND").total = 1
  /\ EventStats("MESSAGES_UPDATE").total = 1
  /\ h[1] = IdleSlot
  /\ secPending = 0
  /\ AllHealth = <<NULL, NULL, 0, [t \in {} |-> [successes |-> 0, failures |-> 0]],
                [lastSuccess |-> NULL, lastError |-> NULL, consecutiveFailures |-> 0]>>

\* C40: the 'disconnected' change of a close reports willReconnect exactly
\* when the close scheduled a reconnect: the critical baileys_disconnected
\* alert is sent by a close exactly when that close scheduled none.
C40_WillReconnectIsScheduled ==
  [][\A loggedOut \in BOOLEAN :
       ConnectionClose(loggedOut) =>
         LET scheduled == Len(reconnectDelays') = Len(reconnectDelays) + 1
             alerted == \E i \in 1..Len(AlertsSent) :
                          AlertsSent[i].event = "baileys_disconnected"
         IN alerted <=> ~scheduled]_vars

\* C35: the stored connection status is always one of the canonical states.
C35_StatusIsCanonical ==
  connectionState.status \in {"unknown", "connecting", "connected", "disconnected",
                              "logged_out"}

\* C39: the legacy counters count messages: totalMessages is
\* MESSAGES_UPSERT.total, allowedMessages is MESSAGES_UPSERT.forwarded and
\* filteredMessages is MESSAGES_UPSERT.filtered.
C39_LegacyCountsMessages ==
  /\ stats.legacy.totalMessages = stats.events["MESSAGES_UPSERT"].total
  /\ stats.legacy.allowedMessages = stats.events["MESSAGES_UPSERT"].forwarded
  /\ stats.legacy.filteredMessages = stats.events["MESSAGES_UPSERT"].filtered

\* C37: MESSAGES_UPSERT.total is at least filtered + forwarded + failed, and
\* equals it while no handler is in flight.
C37_EveryMessageIsAccounted ==
  LET outcomes == UpsertStats.filtered + UpsertStats.forwarded + UpsertStats.failed
  IN /\ UpsertStats.total >= outcomes
     /\ (\A p \in Handlers : h[p].pc = "idle") => UpsertStats.total = outcomes

\* the messages of a list that this run stored (those of a loaded messages.json
\* carry the insertion times of the run that wrote them, before this run's clock)
StoredInThisRun(list) == { i \in 1..Len(list) : list[i].storedAt >= 1 }

NoStoreWrite ==
  /\ "messages.json" \notin proc.timers
  /\ proc.server # "store"
  /\ disk["messages.json"].writers = 0

\* C38: the persistence of the message store loses no mutation: while the
\* process runs, no write of messages.json is under way and the dirty flag is
\* clear, messages.json holds the store as it is in memory (a message stored
\* while a write was under way left the flag set).
C38_SaveLosesNoMutation ==
  (Running /\ NoStoreWrite /\ ~isDirty /\ disk["messages.json"].state = "complete")
    => disk["messages.json"].data = messageStore

\* the alerts send has returned for, and those among them of one level
AlertsReturned == alertSink.returned
ReturnedAt(level) == SelectSeq(AlertsReturned, LAMBDA r : r.level = level)

\* C31: every alert passed to send is counted in stats.alerts once send has
\* returned, in sent or failed and in the counter of its level, whatever the
\* channels and the outcome of the POSTs; with no channel configured send makes
\* no POST and returns sent = false with the no-channels reason.
C31_EveryAlertIsCounted ==
  /\ alertSink.alerts.sent + alertSink.alerts.failed = Len(AlertsReturned)
  /\ \A level \in AlertLevels : alertSink.alerts.byLevel[level] = Len(ReturnedAt(level))
  /\ alertSink.channels = {} =>
       /\ alertSink.posts = 0
       /\ \A k \in 1..Len(AlertsReturned) :
            ~AlertsReturned[k].sent /\ AlertsReturned[k].reason = "no_channels_configured"

\* what the saveMedia call that returns in this step returned
MediaReturned == mediaStore'.returned
MediaReturns == mediaStore'.nReturned = mediaStore.nReturned + 1

\* C36: a saveMedia that returns null for an empty or oversize buffer changes
\* neither the index nor the disk; when a saveMedia returns a handle the index
\* holds at most maxFiles entries and the handle resolves to its blob.
C36_SaveMediaKeepsTheIndexBounded ==
  [][MediaReturns =>
       IF MediaReturned.mediaId = NoMedia
       THEN mediaStore'.calls = mediaStore.calls => /\ mediaStore'.index = mediaStore.index
                 /\ mediaStore'.files = mediaStore.files
                 /\ mediaStore'.indexFile = mediaStore.indexFile
       ELSE /\ Len(mediaStore'.index) <= MAX_MEDIA_FILES
            /\ getMedia(mediaStore'.index, MediaReturned.mediaId)
            /\ MediaReturned.mediaId \in mediaStore'.files]_vars

\* nothing is in flight: no handler, no request awaiting its save
Quiet == (\A p \in Handlers : h[p].pc = "idle") /\ (\A o \in Savers : saves[o] = NoSave)

\* C33: the ingress endpoint triggers one save each time the cumulative number
\* of events reaches a multiple of 100, whatever the number of requests in
\* flight and the events of the adapter in between: once nothing is in flight,
\* the saves triggered are as many as the multiples of 100 reached since the
\* counters were loaded.
C33_OneSavePerHundredEvents ==
  Quiet => autoSaves = (AllEvents(stats) \div AUTO_SAVE_EVERY)
                         - ((AUTO_SAVE_EVERY - 2) \div AUTO_SAVE_EVERY)

\* C34: the writes of the configuration are serialized: once the saves of two
\* overlapping admin requests are over, contacts.json holds the configuration
\* as it is in memory.
C34_FileEqualsMemoryAfterSaves ==
  (nAdmin > 0 /\ (\A o \in Savers : saves[o] = NoSave)
     /\ disk["contacts.json"].state = "complete")
    => disk["contacts.json"].data = configToSave

====
